---- MODULE Spec2Model ----
(***************************************************************************)
(* SloppyVM: the instruction codec, the reference machine and the          *)
(* expression compiler of src/src/sloppyvm/spec.py and src/expression.py,  *)
(* the candidate implementations v1 to v4, the differential oracle        *)
(* and run_fuzzer of src/src/sloppyvm/fuzzing/fuzzer.py, and the           *)
(* enumeration engine of src/src/sloppyvm/fuzzing/enumeration.py as        *)
(* tests/test_enumeration.py drives it.                                    *)
(*                                                                         *)
(* Spec runs the reference on its own, FuzzSpec runs run_fuzzer, and       *)
(* EnumSpec runs the generators and the test loops.                        *)
(*                                                                         *)
(* Python integers are unbounded, and the machine word is 64 bits wide,    *)
(* which is beyond the integers of the model checker.  An integer of the   *)
(* program is therefore modelled as CPython stores it: a sequence of       *)
(* digits, least significant first, with no leading zero digit (here the   *)
(* digits are base 256; 0 is the empty sequence).  to_bytes, from_bytes,   *)
(* +, *, & and >= are computed on the digits.                              *)
(***************************************************************************)
EXTENDS Integers, Sequences, FiniteSets, TLC

\* ------------------------------------------------------------------------
\* Python int
\* ------------------------------------------------------------------------

Max(a, b) == IF a >= b THEN a ELSE b

Min(a, b) == IF a <= b THEN a ELSE b

\* Digit k (1 = least significant) of n; 0 beyond its length.
Digit(n, k) == IF k <= Len(n) THEN n[k] ELSE 0

\* An int has no leading (most significant) zero digit.
RECURSIVE Normalize(_)
Normalize(ds) ==
    IF ds = <<>> THEN <<>>
    ELSE IF ds[Len(ds)] = 0 THEN Normalize(SubSeq(ds, 1, Len(ds) - 1))
    ELSE ds

\* The int denoted by a small literal of the source.
RECURSIVE NatOf(_)
NatOf(k) == IF k = 0 THEN <<>> ELSE <<k % 256>> \o NatOf(k \div 256)

RECURSIVE AddDigits(_, _, _, _)
AddDigits(a, b, k, carry) ==
    IF k > Max(Len(a), Len(b))
    THEN (IF carry = 0 THEN <<>> ELSE <<carry>>)
    ELSE LET s == Digit(a, k) + Digit(b, k) + carry
         IN  <<s % 256>> \o AddDigits(a, b, k + 1, s \div 256)

\* a + b
AddNat(a, b) == Normalize(AddDigits(a, b, 1, 0))

\* Sum of a[i] * b[k + 1 - i] for i in lo..hi: column k of the long product.
RECURSIVE ColumnSum(_, _, _, _)
ColumnSum(a, b, k, i) ==
    IF i > Min(k, Len(a)) THEN 0
    ELSE a[i] * Digit(b, k + 1 - i) + ColumnSum(a, b, k, i + 1)

RECURSIVE MulDigits(_, _, _, _)
MulDigits(a, b, k, carry) ==
    IF k > Len(a) + Len(b) THEN <<>>
    ELSE LET s == ColumnSum(a, b, k, 1) + carry
         IN  <<s % 256>> \o MulDigits(a, b, k + 1, s \div 256)

\* a * b
MulNat(a, b) == Normalize(MulDigits(a, b, 1, 0))

\* x & y on two digits (bit by bit).
RECURSIVE DigitAnd(_, _, _)
DigitAnd(x, y, bits) ==
    IF bits = 0 THEN 0
    ELSE (x % 2) * (y % 2) + 2 * DigitAnd(x \div 2, y \div 2, bits - 1)

\* a & b
AndNat(a, b) ==
    Normalize([k \in 1..Min(Len(a), Len(b)) |-> DigitAnd(a[k], b[k], 8)])

\* a >= b, most significant digit first.
RECURSIVE GeqFrom(_, _, _)
GeqFrom(a, b, k) ==
    IF k = 0 THEN TRUE
    ELSE IF a[k] # b[k] THEN a[k] > b[k]
    ELSE GeqFrom(a, b, k - 1)

GeqNat(a, b) ==
    IF Len(a) # Len(b) THEN Len(a) > Len(b) ELSE GeqFrom(a, b, Len(a))

\* a <= b
LeqNat(a, b) == GeqNat(b, a)

\* n.to_bytes(length, 'big'); the callers keep n below 256^length.
ToBytesBig(n, length) == [k \in 1..length |-> Digit(n, length + 1 - k)]

\* int.from_bytes(bs, 'big')
FromBytesBig(bs) == Normalize([k \in 1..Len(bs) |-> bs[Len(bs) + 1 - k]])

\* data[lo:hi] of Python (0-based, hi exclusive, clipped to the buffer).
Slice(data, lo, hi) == SubSeq(data, lo + 1, Min(hi, Len(data)))

\* An int below 256 used as a list index.
IndexOf(n) == Digit(n, 1)

\* ------------------------------------------------------------------------
\* Constants of spec.py and expression.py
\* ------------------------------------------------------------------------

UINT64_MAX == <<255, 255, 255, 255, 255, 255, 255, 255>>

UINT32_MAX == <<255, 255, 255, 255>>

OP_PUSH4 == 1

OP_ADD == 2

OP_MUL == 3

OP_BYTE == 4

\* ------------------------------------------------------------------------
\* Instruction ADT and serialization
\* ------------------------------------------------------------------------

PUSH4(v) == [op |-> "PUSH4", value |-> v]

ADD == [op |-> "ADD"]

MUL == [op |-> "MUL"]

BYTE == [op |-> "BYTE"]

\* PUSH4.__post_init__: 0 <= value <= 0xFFFFFFFF
ValidPush4Value(v) == LeqNat(v, UINT32_MAX)

\* The operand written least significant byte first.
SerializePush4OperandLittle(val) == [k \in 1..4 |-> Digit(val, k)]

SerializePush4Operand(val) == ToBytesBig(val, 4)

SerializeInstruction(instr) ==
    CASE instr.op = "PUSH4" -> <<OP_PUSH4>> \o SerializePush4Operand(instr.value)
      [] instr.op = "ADD"   -> <<OP_ADD>>
      [] instr.op = "MUL"   -> <<OP_MUL>>
      [] instr.op = "BYTE"  -> <<OP_BYTE>>

RECURSIVE SerializeProgram(_)
SerializeProgram(instrs) ==
    IF instrs = <<>> THEN <<>>
    ELSE SerializeInstruction(Head(instrs)) \o SerializeProgram(Tail(instrs))

\* ------------------------------------------------------------------------
\* Deserialization
\* ------------------------------------------------------------------------

Raise(exc, at) == [raised |-> exc, at |-> at]

Decoded(instr, new_offset) == [raised |-> "none", instr |-> instr, offset |-> new_offset]

\* The truncation test off by one: offset + 4 > len(data).
TruncatedPush4OffByOne(data, offset) == offset + 4 > Len(data)

\* The truncation test of the PUSH4 case.
TruncatedPush4(data, offset) == offset + 5 > Len(data)

\* The end-of-buffer test off by one: offset > len(data), so that
\* data[offset] at the end of the buffer is an IndexError.
DeserializeInstructionEndOffByOne(data, offset) ==
    IF offset > Len(data) THEN Raise("InvalidInstruction", offset)
    ELSE IF offset = Len(data) THEN Raise("IndexError", offset)
    ELSE LET opcode == data[offset + 1] IN
         IF opcode = OP_PUSH4 THEN
              IF TruncatedPush4(data, offset) THEN Raise("InvalidInstruction", offset)
              ELSE Decoded(PUSH4(FromBytesBig(Slice(data, offset + 1, offset + 5))), offset + 5)
         ELSE IF opcode = OP_ADD THEN Decoded(ADD, offset + 1)
         ELSE IF opcode = OP_MUL THEN Decoded(MUL, offset + 1)
         ELSE IF opcode = OP_BYTE THEN Decoded(BYTE, offset + 1)
         ELSE Raise("InvalidInstruction", offset)

\* Every byte above OP_MUL taken for a BYTE opcode.
DeserializeInstructionLenient(data, offset) ==
    IF offset >= Len(data) THEN Raise("InvalidInstruction", offset)
    ELSE LET opcode == data[offset + 1] IN
         IF opcode = OP_PUSH4 THEN
              IF TruncatedPush4(data, offset) THEN Raise("InvalidInstruction", offset)
              ELSE Decoded(PUSH4(FromBytesBig(Slice(data, offset + 1, offset + 5))), offset + 5)
         ELSE IF opcode = OP_ADD THEN Decoded(ADD, offset + 1)
         ELSE IF opcode = OP_MUL THEN Decoded(MUL, offset + 1)
         ELSE IF opcode >= OP_BYTE THEN Decoded(BYTE, offset + 1)
         ELSE Raise("InvalidInstruction", offset)

DeserializeInstruction(data, offset) ==
    IF offset >= Len(data) THEN Raise("InvalidInstruction", offset)
    ELSE LET opcode == data[offset + 1] IN
         IF opcode = OP_PUSH4 THEN
              IF TruncatedPush4(data, offset) THEN Raise("InvalidInstruction", offset)
              ELSE Decoded(PUSH4(FromBytesBig(Slice(data, offset + 1, offset + 5))), offset + 5)
         ELSE IF opcode = OP_ADD THEN Decoded(ADD, offset + 1)
         ELSE IF opcode = OP_MUL THEN Decoded(MUL, offset + 1)
         ELSE IF opcode = OP_BYTE THEN Decoded(BYTE, offset + 1)
         ELSE Raise("InvalidInstruction", offset)

\* ------------------------------------------------------------------------
\* VM state and execution.  Lists are objects: heap[id] is the content of
\* the list object id, and a VMState is known by the id of its stack list.
\* ------------------------------------------------------------------------

\* VMState.__post_init__: every value is in 0..UINT64_MAX.
ValidStack(stack) == \A k \in 1..Len(stack) : LeqNat(stack[k], UINT64_MAX)

\* A copy that shares the list: VMState(stack=self.stack).
VMStateCopyShared(h, sid) == [heap |-> h, state |-> sid]

\* VMState.copy: a new VMState over a copy of the list.
VMStateCopy(h, sid) == [heap |-> Append(h, h[sid]), state |-> Len(h) + 1]

\* list.pop() and list.append(v), in place on the list object id.
Top(h, id) == h[id][Len(h[id])]

Pop(h, id) == [h EXCEPT ![id] = SubSeq(@, 1, Len(@) - 1)]

Push(h, id, v) == [h EXCEPT ![id] = Append(@, v)]

\* len(stack) <= 2
UnderflowOffByOne(stack) == Len(stack) <= 2

\* len(stack) < 2
Underflow(stack) == Len(stack) < 2

\* The mask left out, as in the first candidate implementations.
Mask64Missing(n) == n

\* The mask one bit too wide: n & (2^65 - 1).
Mask64TooWide(n) == AndNat(n, AddNat(AddNat(UINT64_MAX, UINT64_MAX), NatOf(1)))

\* n & UINT64_MAX
Mask64(n) == AndNat(n, UINT64_MAX)

\* i >= 7, the bound check of candidate v3.
ByteIndexOutOfRangeV3(i) == GeqNat(i, NatOf(7))

\* i >= 8
ByteIndexOutOfRange(i) == GeqNat(i, NatOf(8))

\* x.to_bytes(8, 'big')[i]
ExtractByte(x, i) == NatOf(ToBytesBig(x, 8)[IndexOf(i) + 1])

Returned(h, sid) == [raised |-> "none", heap |-> h, state |-> sid, msg |-> ""]

Raised(h, exc, msg) == [raised |-> exc, heap |-> h, state |-> 0, msg |-> msg]

\* ADD and MUL: a = stack.pop(); b = stack.pop(); stack.append(f(a, b)).
ExecArith(h, new, isAdd) ==
    LET a  == Top(h, new)
        h1 == Pop(h, new)
        b  == Top(h1, new)
        h2 == Pop(h1, new)
        r  == IF isAdd THEN Mask64(AddNat(a, b)) ELSE Mask64(MulNat(a, b))
    IN  Returned(Push(h2, new, r), new)

\* BYTE: i = stack.pop(); x = stack.pop().
ExecByte(h, new) ==
    LET i  == Top(h, new)
        h1 == Pop(h, new)
        x  == Top(h1, new)
        h2 == Pop(h1, new)
    IN  IF ByteIndexOutOfRange(i)
        THEN Returned(Push(h2, new, NatOf(0)), new)
        ELSE Returned(Push(h2, new, ExtractByte(x, i)), new)

\* execute(state, instruction) on the heap h; sid is the argument state.
Execute(h, sid, instruction) ==
    LET c     == VMStateCopy(h, sid)
        new   == c.state
        stack == c.heap[new]
    IN  IF ~ValidStack(stack) THEN Raised(h, "ValueError", "out of uint64 range")
        ELSE CASE instruction.op = "PUSH4" ->
                    Returned(Push(c.heap, new, instruction.value), new)
               [] instruction.op = "ADD" ->
                    IF Underflow(stack)
                    THEN Raised(c.heap, "StackUnderflow", "ADD requires 2 stack elements")
                    ELSE ExecArith(c.heap, new, TRUE)
               [] instruction.op = "MUL" ->
                    IF Underflow(stack)
                    THEN Raised(c.heap, "StackUnderflow", "MUL requires 2 stack elements")
                    ELSE ExecArith(c.heap, new, FALSE)
               [] instruction.op = "BYTE" ->
                    IF Underflow(stack)
                    THEN Raised(c.heap, "StackUnderflow", "BYTE requires 2 stack elements")
                    ELSE ExecByte(c.heap, new)
               [] OTHER ->
                    Raised(c.heap, "InvalidInstruction", "Unknown instruction type")

\* ------------------------------------------------------------------------
\* Expression ADT and compilation (expression.py)
\* ------------------------------------------------------------------------

Const(v) == [tag |-> "Const", value |-> v]

Add(l, r) == [tag |-> "Add", left |-> l, right |-> r]

Mul(l, r) == [tag |-> "Mul", left |-> l, right |-> r]

Byte(v, i) == [tag |-> "Byte", value |-> v, index |-> i]

\* The operator left out: only the operands are emitted.
OperandsOnly(first, second, operator) == first \o second

\* The operator emitted before its operands.
PreOrder(first, second, operator) == <<operator>> \o first \o second

\* The order in which an operator node's parts are concatenated.
PostOrder(first, second, operator) == first \o second \o <<operator>>

RECURSIVE CompileExprToInstructions(_)
CompileExprToInstructions(expr) ==
    CASE expr.tag = "Const" -> <<PUSH4(expr.value)>>
      [] expr.tag = "Add" ->
            PostOrder(CompileExprToInstructions(expr.left),
                      CompileExprToInstructions(expr.right), ADD)
      [] expr.tag = "Mul" ->
            PostOrder(CompileExprToInstructions(expr.left),
                      CompileExprToInstructions(expr.right), MUL)
      [] expr.tag = "Byte" ->
            PostOrder(CompileExprToInstructions(expr.value),
                      CompileExprToInstructions(expr.index), BYTE)

CompileExpr(expr) == SerializeProgram(CompileExprToInstructions(expr))

\* ------------------------------------------------------------------------
\* The reference as its callers see it: a call and what it returns or raises
\* ------------------------------------------------------------------------

\* The while loop of deserialize_program from a given offset.
RECURSIVE DeserializeProgramFrom(_, _, _)
DeserializeProgramFrom(data, off, instrs) ==
    IF off < Len(data)
    THEN LET r == DeserializeInstruction(data, off) IN
         IF r.raised # "none" THEN r
         ELSE DeserializeProgramFrom(data, r.offset, Append(instrs, r.instr))
    ELSE [raised |-> "none", instructions |-> instrs]

DeserializeProgram(data) == DeserializeProgramFrom(data, 0, <<>>)

\* The for loop of execute_program from instruction k on.
RECURSIVE ExecuteProgramFrom(_, _, _, _)
ExecuteProgramFrom(h, sid, instrs, k) ==
    IF k > Len(instrs) THEN Returned(h, sid)
    ELSE LET r == Execute(h, sid, instrs[k]) IN
         IF r.raised # "none" THEN r
         ELSE ExecuteProgramFrom(r.heap, r.state, instrs, k + 1)

\* execute_program(instructions): initial_stack is None, the stack starts [].
ExecuteProgram(instrs) == ExecuteProgramFrom(<< <<>> >>, 1, instrs, 1)

\* execute_bytecode(bytecode)
ExecuteBytecode(data) ==
    LET d == DeserializeProgram(data) IN
    IF d.raised # "none" THEN d ELSE ExecuteProgram(d.instructions)

\* ------------------------------------------------------------------------
\* Candidate implementations: execute(bytecode) of v1, v3 and v4
\* ------------------------------------------------------------------------

ImplReturn(stack) == [raised |-> "none", stack |-> stack]

\* An exception of class exc; msg is its text followed by the numbers
\* formatted into it.
ImplRaise(exc, msg) == [raised |-> exc, msg |-> msg]

\* int.from_bytes(bs, 'little')
FromBytesLittle(bs) == Normalize(bs)

\* x >> shift, shift a multiple of 8
ShiftRight(x, shift) == SubSeq(x, (shift \div 8) + 1, Len(x))

\* n & 0xFF
LowByte(n) == AndNat(n, <<255>>)

\* stack.pop() on a list: the list without its last element.
ListPop(stack) == SubSeq(stack, 1, Len(stack) - 1)

\* v1: a + b and a * b are pushed unmasked.
V1Arith(stack, isAdd) ==
    LET a == stack[Len(stack)]
        b == stack[Len(stack) - 1]
    IN  Append(ListPop(ListPop(stack)), IF isAdd THEN AddNat(a, b) ELSE MulNat(a, b))

\* v1: x = stack.pop(); i = stack.pop(); shift = i * 8.
V1Byte(stack) ==
    LET x == stack[Len(stack)]
        i == stack[Len(stack) - 1]
    IN  Append(ListPop(ListPop(stack)),
               IF GeqNat(i, NatOf(8)) THEN NatOf(0)
               ELSE LowByte(ShiftRight(x, IndexOf(i) * 8)))

RECURSIVE V1Loop(_, _, _)
V1Loop(data, off, stack) ==
    IF ~(off < Len(data)) THEN ImplReturn(stack)
    ELSE LET opcode == data[off + 1] IN
         CASE opcode = OP_PUSH4 ->
                V1Loop(data, off + 5,
                       Append(stack, FromBytesLittle(Slice(data, off + 1, off + 5))))
           [] opcode \in {OP_ADD, OP_MUL, OP_BYTE} ->
                IF Len(stack) < 2
                THEN ImplRaise("IndexError", <<"pop from empty list">>)
                ELSE V1Loop(data, off + 1,
                            IF opcode = OP_BYTE THEN V1Byte(stack)
                            ELSE V1Arith(stack, opcode = OP_ADD))
           [] OTHER -> ImplRaise("RuntimeError", <<"Unknown opcode", opcode>>)

V1Execute(data) == V1Loop(data, 0, <<>>)

\* v2: x = stack.pop(); i = stack.pop(); if i >= 7; shift = i * 8.
V2Byte(stack) ==
    LET x == stack[Len(stack)]
        i == stack[Len(stack) - 1]
    IN  Append(ListPop(ListPop(stack)),
               IF GeqNat(i, NatOf(7)) THEN NatOf(0)
               ELSE LowByte(ShiftRight(x, IndexOf(i) * 8)))

\* v2 without the test, as v1 is: the slice is short.
V2TruncatedUnchecked(data, off) == FALSE

\* v2: if offset + 5 > len(bytecode)
V2Truncated(data, off) == off + 5 > Len(data)

\* v2: the checks of the later candidates, the arithmetic of v1.
RECURSIVE V2Loop(_, _, _)
V2Loop(data, off, stack) ==
    IF ~(off < Len(data)) THEN ImplReturn(stack)
    ELSE LET opcode == data[off + 1] IN
         CASE opcode = OP_PUSH4 ->
                IF V2Truncated(data, off)
                THEN ImplRaise("InvalidInstruction",
                               <<"Truncated PUSH4", off, Len(data) - off>>)
                ELSE V2Loop(data, off + 5,
                            Append(stack, FromBytesBig(Slice(data, off + 1, off + 5))))
           [] opcode \in {OP_ADD, OP_MUL, OP_BYTE} ->
                IF Len(stack) < 2
                THEN ImplRaise("StackUnderflow",
                               CASE opcode = OP_ADD  -> <<"ADD requires 2 stack elements">>
                                 [] opcode = OP_MUL  -> <<"MUL requires 2 stack elements">>
                                 [] opcode = OP_BYTE -> <<"BYTE requires 2 stack elements">>)
                ELSE V2Loop(data, off + 1,
                            IF opcode = OP_BYTE THEN V2Byte(stack)
                            ELSE V1Arith(stack, opcode = OP_ADD))
           [] OTHER -> ImplRaise("InvalidInstruction", <<"Unknown opcode", opcode, off>>)

V2Execute(data) == V2Loop(data, 0, <<>>)

\* v3 and v4: (a + b) & UINT64_MAX and (a * b) & UINT64_MAX; v3 pops b
\* first, v4 pops a first.
MaskedArith(stack, isAdd) ==
    LET a == stack[Len(stack)]
        b == stack[Len(stack) - 1]
    IN  Append(ListPop(ListPop(stack)),
               AndNat(IF isAdd THEN AddNat(a, b) ELSE MulNat(a, b), UINT64_MAX))

\* v3 with the bound check of v4.
V3IndexOutOfRangeFixed(i) == GeqNat(i, NatOf(8))

\* v3: if i >= 7
V3IndexOutOfRange(i) == GeqNat(i, NatOf(7))

\* v4: if i >= 8
V4IndexOutOfRange(i) == GeqNat(i, NatOf(8))

\* The shift of v1 and v2.
V4ShiftLittle(i) == IndexOf(i) * 8

\* v3 and v4: shift = (7 - i) * 8
V4Shift(i) == (7 - IndexOf(i)) * 8

\* v3 and v4: i = stack.pop(); x = stack.pop(); outOfRange is i >= 7 (v3)
\* or i >= 8 (v4).
BigEndianByte(stack, outOfRange) ==
    LET i == stack[Len(stack)]
        x == stack[Len(stack) - 1]
    IN  Append(ListPop(ListPop(stack)),
               IF outOfRange THEN NatOf(0) ELSE LowByte(ShiftRight(x, V4Shift(i))))

TruncatedMessage(data, off) == <<"Truncated PUSH4", off, Len(data) - off>>

UnderflowMessage(opcode) ==
    CASE opcode = OP_ADD  -> <<"ADD requires 2 stack elements">>
      [] opcode = OP_MUL  -> <<"MUL requires 2 stack elements">>
      [] opcode = OP_BYTE -> <<"BYTE requires 2 stack elements">>

RECURSIVE V3Loop(_, _, _)
V3Loop(data, off, stack) ==
    IF ~(off < Len(data)) THEN ImplReturn(stack)
    ELSE LET opcode == data[off + 1] IN
         CASE opcode = OP_PUSH4 ->
                IF off + 5 > Len(data)
                THEN ImplRaise("InvalidInstruction", TruncatedMessage(data, off))
                ELSE V3Loop(data, off + 5,
                            Append(stack, FromBytesBig(Slice(data, off + 1, off + 5))))
           [] opcode \in {OP_ADD, OP_MUL, OP_BYTE} ->
                IF Len(stack) < 2
                THEN ImplRaise("StackUnderflow", UnderflowMessage(opcode))
                ELSE V3Loop(data, off + 1,
                            IF opcode = OP_BYTE
                            THEN BigEndianByte(stack, V3IndexOutOfRange(stack[Len(stack)]))
                            ELSE MaskedArith(stack, opcode = OP_ADD))
           [] OTHER -> ImplRaise("InvalidInstruction", <<"Unknown opcode", opcode, off>>)

V3Execute(data) == V3Loop(data, 0, <<>>)

RECURSIVE V4Loop(_, _, _)
V4Loop(data, off, stack) ==
    IF ~(off < Len(data)) THEN ImplReturn(stack)
    ELSE LET opcode == data[off + 1] IN
         CASE opcode = OP_PUSH4 ->
                IF off + 5 > Len(data)
                THEN ImplRaise("InvalidInstruction", TruncatedMessage(data, off))
                ELSE V4Loop(data, off + 5,
                            Append(stack, FromBytesBig(Slice(data, off + 1, off + 5))))
           [] opcode \in {OP_ADD, OP_MUL, OP_BYTE} ->
                IF Len(stack) < 2
                THEN ImplRaise("StackUnderflow", UnderflowMessage(opcode))
                ELSE V4Loop(data, off + 1,
                            IF opcode = OP_BYTE
                            THEN BigEndianByte(stack, V4IndexOutOfRange(stack[Len(stack)]))
                            ELSE MaskedArith(stack, opcode = OP_ADD))
           [] OTHER -> ImplRaise("InvalidInstruction", <<"Unknown opcode", opcode, off>>)

V4Execute(data) == V4Loop(data, 0, <<>>)

\* get_implementation(impl).execute
ImplExecute(impl, data) ==
    CASE impl = "v1" -> V1Execute(data)
      [] impl = "v2" -> V2Execute(data)
      [] impl = "v3" -> V3Execute(data)
      [] impl = "v4" -> V4Execute(data)

\* ------------------------------------------------------------------------
\* The differential oracle (fuzzer.py)
\* ------------------------------------------------------------------------

Success(stack) == [kind |-> "Success", stack |-> stack]

ExceptionThrown(reason) == [kind |-> "ExceptionThrown", reason |-> reason]

Crash(reason) == [kind |-> "Crash", reason |-> reason]

\* An exception that no except clause catches leaves the function.
Propagated(exc) == [kind |-> "Propagated", reason |-> <<exc>>]

\* repr(e): the class name and the message.
Repr(exc, msg) == <<exc>> \o msg

\* A handler that catches every exception.
IsException(exc) == TRUE

\* isinstance(e, SloppyVMException)
IsSloppyVMException(exc) ==
    exc \in {"SloppyVMException", "InvalidInstruction", "StackUnderflow"}

ExecuteWithSpec(data) ==
    LET r == ExecuteBytecode(data) IN
    CASE r.raised = "none"               -> Success(r.heap[r.state])
      [] r.raised = "InvalidInstruction" -> ExceptionThrown(<<"invalid bytecode">>)
      [] r.raised # "none" /\ r.raised # "InvalidInstruction"
             /\ IsSloppyVMException(r.raised) -> ExceptionThrown(Repr(r.raised, <<r.msg>>))
      [] OTHER                           -> Propagated(r.raised)

ExecuteWithImplementation(data, impl) ==
    LET r == ImplExecute(impl, data) IN
    IF r.raised = "none" THEN Success(r.stack)
    ELSE IF IsSloppyVMException(r.raised) THEN ExceptionThrown(Repr(r.raised, r.msg))
    ELSE Crash(<<"implementation raised exception">> \o Repr(r.raised, r.msg))

\* A comparison that also compares the reason texts.
CompareResultsStrict(expected, actual) == expected = actual

\* A comparison that takes a Crash for an ExceptionThrown.
CompareResultsFailuresAlike(expected, actual) ==
    \/ expected.kind = "Success" /\ expected = actual
    \/ expected.kind # "Success" /\ actual.kind # "Success"

\* compare_results of sloppyvm/fuzzing/fuzzer.py
CompareResults(expected, actual) ==
    /\ expected.kind = actual.kind
    /\ (expected.kind # "Success" \/ expected = actual)

\* compare_results of the older fuzzer.py: match expected.
CompareResultsMatch(expected, actual) ==
    CASE expected.kind = "Crash"           -> actual.kind = "Crash"
      [] expected.kind = "ExceptionThrown" -> actual.kind = "ExceptionThrown"
      [] expected.kind = "Success"         -> expected = actual

\* ------------------------------------------------------------------------
\* Enumeration engine (enumeration.py)
\* ------------------------------------------------------------------------

\* 0, 1, 2, 7, 8, 0xFF, 0xFFFF, 0xFFFFFFFF
BOUNDARY_CONSTANTS ==
    <<NatOf(0), NatOf(1), NatOf(2), NatOf(7), NatOf(8), NatOf(255), NatOf(65535),
      UINT32_MAX>>

MINIMAL_CONSTANTS == <<NatOf(0), NatOf(1), NatOf(7), NatOf(8)>>

\* The body of the inner loop with its operands exchanged.
YieldsOfPairSwapped(left, right) ==
    <<Add(right, left), Mul(right, left), Byte(right, left)>>

\* A body that yields Mul where it should yield Byte.
YieldsOfPairMulTwice(left, right) ==
    <<Add(left, right), Mul(left, right), Mul(left, right)>>

\* The body of the inner loop: yield Add, yield Mul, yield Byte.
YieldsOfPair(left, right) ==
    <<Add(left, right), Mul(left, right), Byte(left, right)>>

\* for right in sub_exprs, from index j on
RECURSIVE RightLoop(_, _, _)
RightLoop(left, sub_exprs, j) ==
    IF j > Len(sub_exprs) THEN <<>>
    ELSE YieldsOfPair(left, sub_exprs[j]) \o RightLoop(left, sub_exprs, j + 1)

\* for left in sub_exprs, from index i on
RECURSIVE LeftLoop(_, _)
LeftLoop(sub_exprs, i) ==
    IF i > Len(sub_exprs) THEN <<>>
    ELSE RightLoop(sub_exprs[i], sub_exprs, 1) \o LeftLoop(sub_exprs, i + 1)

\* for c in constants: yield Const(c)
ConstLoop(constants) == [k \in 1..Len(constants) |-> Const(constants[k])]

\* list(enumerate_expressions(depth, constants))
RECURSIVE EnumerateExpressions(_, _)
EnumerateExpressions(depth, constants) ==
    IF depth = 0 THEN ConstLoop(constants)
    ELSE LeftLoop(EnumerateExpressions(depth - 1, constants), 1) \o ConstLoop(constants)

\* for depth in range(from, max_depth + 1): the compiled expressions
RECURSIVE ExpressionProgramsFrom(_, _, _)
ExpressionProgramsFrom(depth, max_depth, constants) ==
    IF depth > max_depth THEN <<>>
    ELSE LET exprs == EnumerateExpressions(depth, constants) IN
         [k \in 1..Len(exprs) |-> CompileExpr(exprs[k])]
            \o ExpressionProgramsFrom(depth + 1, max_depth, constants)

EnumerateExpressionPrograms(max_depth, constants) ==
    ExpressionProgramsFrom(0, max_depth, constants)

\* test_values: 0, 1, 0xFF, 0xFFFF, 0xFFFFFFFF, 0x123456789ABCDEF
ByteTestValues ==
    <<NatOf(0), NatOf(1), NatOf(255), NatOf(65535), UINT32_MAX,
      <<239, 205, 171, 137, 103, 69, 35, 1>> >>

\* test_indices = list(range(10))
ByteTestIndices == [k \in 1..10 |-> NatOf(k - 1)]

\* for value in test_values: for index in test_indices: item k (from 0) has
\* value k div 10 and index k mod 10.
EnumerateByteBoundaryTests ==
    [k \in 1..(Len(ByteTestValues) * Len(ByteTestIndices)) |->
        SerializeProgram(
            <<PUSH4(AndNat(ByteTestValues[((k - 1) \div Len(ByteTestIndices)) + 1],
                           UINT32_MAX)),
              PUSH4(ByteTestIndices[((k - 1) % Len(ByteTestIndices)) + 1]),
              BYTE>>)]

\* large_values: 0xFFFFFFFF, 0x80000000, 0x7FFFFFFF
LargeValues == <<UINT32_MAX, <<0, 0, 0, 128>>, <<255, 255, 255, 127>> >>

\* for v1 in large_values: for v2 in large_values: PUSH4(v1), PUSH4(v2), op
OverflowLoop(op) ==
    [k \in 1..(Len(LargeValues) * Len(LargeValues)) |->
        SerializeProgram(<<PUSH4(LargeValues[((k - 1) \div Len(LargeValues)) + 1]),
                           PUSH4(LargeValues[((k - 1) % Len(LargeValues)) + 1]),
                           op>>)]

EnumerateArithmeticOverflowTests == OverflowLoop(ADD) \o OverflowLoop(MUL)

\* A loop body that pushes the value twice before the operation.
OneValueTestsTwoValues(value) ==
    <<SerializeProgram(<<PUSH4(value), PUSH4(value), ADD>>),
      SerializeProgram(<<PUSH4(value), PUSH4(value), MUL>>),
      SerializeProgram(<<PUSH4(value), PUSH4(value), BYTE>>)>>

\* The body of the loop over MINIMAL_CONSTANTS: one value, but need two.
OneValueTests(value) ==
    <<SerializeProgram(<<PUSH4(value), ADD>>),
      SerializeProgram(<<PUSH4(value), MUL>>),
      SerializeProgram(<<PUSH4(value), BYTE>>)>>

RECURSIVE OneValueLoop(_)
OneValueLoop(k) ==
    IF k > Len(MINIMAL_CONSTANTS) THEN <<>>
    ELSE OneValueTests(MINIMAL_CONSTANTS[k]) \o OneValueLoop(k + 1)

EnumerateStackUnderflowTests ==
    <<SerializeProgram(<<ADD>>), SerializeProgram(<<MUL>>), SerializeProgram(<<BYTE>>)>>
        \o OneValueLoop(1)

\* bytes.hex(): two hexadecimal digits per byte, the high one first.
Hex(data) ==
    [k \in 1..(2 * Len(data)) |->
        IF k % 2 = 1 THEN data[(k + 1) \div 2] \div 16 ELSE data[k \div 2] % 16]

\* The four sources of generate_comprehensive_suite, in the order of its
\* four loops.
SuiteSources(max_expr_depth) ==
    <<EnumerateExpressionPrograms(max_expr_depth, BOUNDARY_CONSTANTS),
      EnumerateByteBoundaryTests,
      EnumerateArithmeticOverflowTests,
      EnumerateStackUnderflowTests>>

\* ------------------------------------------------------------------------
\* Inputs
\* ------------------------------------------------------------------------

MaxBufLen == 5

MaxProgLen == 2

MaxStackDepth == 2

MaxExprOps == 2

\* Byte values of raw buffers: the lowest and the highest opcode, and the
\* bytes on either side of the opcodes.
RawBytes == {0, OP_PUSH4, OP_BYTE, 5}

RawBuffers == UNION {[1..n -> RawBytes] : n \in 0..MaxBufLen}

\* 0, 0x12345678, 0xFFFFFFFF
Push4Samples == {<<>>, <<120, 86, 52, 18>>, UINT32_MAX}

InstructionSamples == {PUSH4(v) : v \in Push4Samples} \cup {ADD, MUL, BYTE}

Programs == UNION {[1..n -> InstructionSamples] : n \in 0..MaxProgLen}

\* 2, 8, 2^64 - 1
WordSamples == {<<2>>, <<8>>, UINT64_MAX}

Stacks == UNION {[1..n -> WordSamples] : n \in 0..MaxStackDepth}

\* 7, 0x12345678
ConstSamples == {<<7>>, <<120, 86, 52, 18>>}

Operators == {"Add", "Mul", "Byte"}

Node(tag, l, r) ==
    CASE tag = "Add" -> Add(l, r) [] tag = "Mul" -> Mul(l, r) [] tag = "Byte" -> Byte(l, r)

\* The expression trees with exactly n operator nodes.
RECURSIVE ExprsOfSize(_)
ExprsOfSize(n) ==
    IF n = 0 THEN {Const(c) : c \in ConstSamples}
    ELSE UNION {{Node(tag, l, r) : tag \in Operators, l \in ExprsOfSize(k),
                                   r \in ExprsOfSize(n - 1 - k)} : k \in 0..(n - 1)}

Exprs == UNION {ExprsOfSize(n) : n \in 0..MaxExprOps}

\* ------------------------------------------------------------------------
\* State: one call of execute_bytecode(bytecode, initial_stack), or one call
\* of deserialize_instruction(bytecode, offset), on a generated input.
\* ------------------------------------------------------------------------

VARIABLES
    source,         \* how the input was made: "raw", "program" or "expr"
    expr,           \* the expression compiled (source = "expr"), else <<>>
    program,        \* the instruction list serialized, else <<>>
    bytecode,       \* the byte buffer
    initial_stack,  \* id of the caller's list, 0 for None
    heap,           \* the list objects
    pc,             \* "decode", "exec" or "done"
    offset,         \* deserialize_program: offset
    instructions,   \* deserialize_program: instructions
    decoded,        \* what deserialize_program returned or raised
    state,          \* execute_program: state (id of its stack list)
    ip,             \* execute_program: instructions executed so far
    outcome,        \* what execute_bytecode returned or raised
    single,         \* what the direct deserialize_instruction call gave
    impl,           \* the candidate under test: "v1" .. "v4", or "none"
    num_tests,      \* run_fuzzer: num_tests
    iteration,      \* run_fuzzer: i; the test loops: the items gone through
    spec_result,    \* what the reference gave for bytecode (an ExecutionResult,
                    \* or in the test loops what the try block kept)
    impl_result,    \* what the candidate gave for bytecode, likewise
    matches,        \* run_fuzzer: matches
    stats,          \* run_fuzzer: the FuzzingStatistics object
    compared,       \* what the direct compare_results call gave
    test,           \* the test function of tests/test_enumeration.py that runs
    call,           \* the generator it calls and the arguments
    run,            \* which invocation of the generator is being listed
    frame,          \* the local variables of the running generator
    out,            \* the items the running generator has yielded
    first,          \* the list the first invocation gave
    count,          \* the test loops: underflow_count or bugs_found
    hpc             \* where run_fuzzer or the test function is

\* The state of the callers of the reference: the fuzzer and the tests.
harness == <<impl, num_tests, iteration, spec_result, impl_result, matches, stats,
             compared, test, call, run, frame, out, first, count, hpc>>

vars == <<source, expr, program, bytecode, initial_stack, heap, pc, offset,
          instructions, decoded, state, ip, outcome, single, harness>>

Pending == [raised |-> "pending"]

InitCall ==
    /\ pc = "decode"
    /\ offset = 0
    /\ instructions = <<>>
    /\ decoded = Pending
    /\ state = 0
    /\ ip = 0
    /\ outcome = Pending
    /\ single = [offset |-> -1, result |-> Pending]

InitRaw ==
    /\ source = "raw"
    /\ expr = <<>>
    /\ program = <<>>
    /\ bytecode \in RawBuffers
    /\ initial_stack = 0
    /\ heap = <<>>

InitProgram ==
    /\ source = "program"
    /\ expr = <<>>
    /\ program \in Programs
    /\ bytecode = SerializeProgram(program)
    /\ initial_stack = 1
    /\ \E st \in Stacks : heap = <<st>>

InitExpr ==
    /\ source = "expr"
    /\ expr \in Exprs
    /\ program = CompileExprToInstructions(expr)
    /\ bytecode = CompileExpr(expr)
    /\ initial_stack = 0
    /\ heap = <<>>

NoResult == [kind |-> "none"]

NoStatistics == [total_tests |-> 0, bugs_found |-> 0, crashes |-> 0, invalid_bytecodes |-> 0]

NoComparison == [expected |-> NoResult, actual |-> NoResult, result |-> FALSE]

NoCall == [fn |-> "none"]

NoFrame == [fn |-> "none"]

\* No fuzzer run.
FuzzerIdle ==
    /\ num_tests = 0
    /\ matches = FALSE
    /\ stats = NoStatistics
    /\ compared = NoComparison

\* No enumeration test.
EnumerationIdle ==
    /\ test = "none"
    /\ call = NoCall
    /\ run = 0
    /\ frame = NoFrame
    /\ out = <<>>
    /\ first = <<>>
    /\ count = 0

\* execute_bytecode and deserialize_instruction are called directly.
HarnessIdle ==
    /\ FuzzerIdle
    /\ EnumerationIdle
    /\ impl = "none"
    /\ iteration = 0
    /\ spec_result = NoResult
    /\ impl_result = NoResult
    /\ hpc = "idle"

Init == (InitRaw \/ InitProgram \/ InitExpr) /\ InitCall /\ HarnessIdle

\* ------------------------------------------------------------------------
\* deserialize_instruction(data, offset), called directly
\* ------------------------------------------------------------------------

Fresh == pc = "decode" /\ offset = 0 /\ instructions = <<>>

DeserializeInstructionCall ==
    /\ Fresh
    /\ \E off \in 0..(Len(bytecode) + 1) :
          single' = [offset |-> off, result |-> DeserializeInstruction(bytecode, off)]
    /\ pc' = "done"
    /\ UNCHANGED <<harness, source, expr, program, bytecode, initial_stack, heap,
                   offset, instructions, decoded, state, ip, outcome>>

\* ------------------------------------------------------------------------
\* execute_bytecode: deserialize_program, then execute_program
\* ------------------------------------------------------------------------

input == <<source, expr, program, bytecode, initial_stack>>

\* A loop that executes each instruction as soon as it is decoded, as the
\* candidate implementations do.
DecodeStepInterleaved ==
    /\ pc = "decode"
    /\ offset < Len(bytecode)
    /\ LET r  == DeserializeInstruction(bytecode, offset)
           h0 == IF state = 0 THEN Append(heap, <<>>) ELSE heap
           s0 == IF state = 0 THEN Len(heap) + 1 ELSE state
           e  == Execute(h0, s0, r.instr)
       IN  /\ r.raised = "none"
           /\ instructions' = Append(instructions, r.instr)
           /\ offset' = r.offset
           /\ heap' = e.heap
           /\ IF e.raised = "none"
              THEN state' = e.state /\ UNCHANGED <<pc, outcome>>
              ELSE /\ state' = s0
                   /\ pc' = "done"
                   /\ outcome' = [raised |-> e.raised, msg |-> e.msg]
    /\ UNCHANGED <<harness, input, decoded, ip, single>>

\* One iteration of the while loop of deserialize_program.
DecodeStep ==
    /\ pc = "decode"
    /\ offset < Len(bytecode)
    /\ LET r == DeserializeInstruction(bytecode, offset) IN
          /\ r.raised = "none"
          /\ instructions' = Append(instructions, r.instr)
          /\ offset' = r.offset
    /\ UNCHANGED <<harness, input, heap, pc, decoded, state, ip, outcome, single>>

\* deserialize_instruction raises: the exception leaves deserialize_program
\* and execute_bytecode.
DecodeFail ==
    /\ pc = "decode"
    /\ offset < Len(bytecode)
    /\ LET r == DeserializeInstruction(bytecode, offset) IN
          /\ r.raised # "none"
          /\ decoded' = r
          /\ outcome' = r
    /\ pc' = "done"
    /\ UNCHANGED <<harness, input, heap, offset, instructions, state, ip, single>>

\* The loop ends: deserialize_program returns its list.
DecodeReturn ==
    /\ pc = "decode"
    /\ offset >= Len(bytecode)
    /\ decoded' = [raised |-> "none", instructions |-> instructions]
    /\ pc' = "execute_program"
    /\ UNCHANGED <<harness, input, heap, offset, instructions, state, ip, outcome, single>>

\* initial_stack or []
InitialStackGiven == initial_stack # 0 /\ heap[initial_stack] # <<>>

\* state = VMState(stack=initial_stack or [])
ExecuteProgramEnter ==
    /\ pc = "execute_program"
    /\ IF InitialStackGiven
       THEN IF ValidStack(heap[initial_stack])
            THEN state' = initial_stack /\ pc' = "exec" /\ UNCHANGED <<heap, outcome>>
            ELSE /\ outcome' = [raised |-> "ValueError"]
                 /\ pc' = "done"
                 /\ UNCHANGED <<heap, state>>
       ELSE /\ heap' = Append(heap, <<>>)
            /\ state' = Len(heap) + 1
            /\ pc' = "exec"
            /\ UNCHANGED outcome
    /\ ip' = 0
    /\ UNCHANGED <<harness, input, offset, instructions, decoded, single>>

\* One iteration of the for loop of execute_program.
ExecStep ==
    /\ pc = "exec"
    /\ ip < Len(decoded.instructions)
    /\ LET r == Execute(heap, state, decoded.instructions[ip + 1]) IN
          /\ r.raised = "none"
          /\ heap' = r.heap
          /\ state' = r.state
    /\ ip' = ip + 1
    /\ UNCHANGED <<harness, input, pc, offset, instructions, decoded, outcome, single>>

\* A loop that swallows the exception and goes on to the next instruction.
ExecFailContinue ==
    /\ pc = "exec"
    /\ ip < Len(decoded.instructions)
    /\ LET r == Execute(heap, state, decoded.instructions[ip + 1]) IN
          /\ r.raised # "none"
          /\ heap' = r.heap
    /\ ip' = ip + 1
    /\ UNCHANGED <<harness, input, pc, offset, instructions, decoded, state, outcome, single>>

\* execute raises: the exception leaves execute_program and execute_bytecode.
ExecFail ==
    /\ pc = "exec"
    /\ ip < Len(decoded.instructions)
    /\ LET r == Execute(heap, state, decoded.instructions[ip + 1]) IN
          /\ r.raised # "none"
          /\ heap' = r.heap
          /\ outcome' = [raised |-> r.raised, msg |-> r.msg]
    /\ pc' = "done"
    /\ UNCHANGED <<harness, input, offset, instructions, decoded, state, ip, single>>

\* The loop ends: execute_program returns state.
ExecReturn ==
    /\ pc = "exec"
    /\ ip >= Len(decoded.instructions)
    /\ outcome' = [raised |-> "none", state |-> state]
    /\ pc' = "done"
    /\ UNCHANGED <<harness, input, heap, offset, instructions, decoded, state, ip, single>>

Next ==
    \/ DeserializeInstructionCall
    \/ DecodeStep
    \/ DecodeFail
    \/ DecodeReturn
    \/ ExecuteProgramEnter
    \/ ExecStep
    \/ ExecFail
    \/ ExecReturn

Spec == Init /\ [][Next]_vars

\* ------------------------------------------------------------------------
\* run_fuzzer(num_tests, seed, impl, generator = "random"), and
\* compare_results called directly
\* ------------------------------------------------------------------------

MaxTests == 2

\* DEFAULT_CONFIG.max_length
MAX_LENGTH == 20

Candidates == {"v1", "v2", "v3", "v4"}

\* What generate_random_bytes can return: 1 to max_length bytes.  The
\* samples are raw buffers, serialized programs and compiled expressions.
RandomBytes ==
    {b \in RawBuffers \cup {SerializeProgram(p) : p \in Programs}
                      \cup {CompileExpr(e) : e \in Exprs} :
        Len(b) >= 1 /\ Len(b) <= MAX_LENGTH}

ExecutionResultSamples ==
    {Success(<<>>), Success(<<NatOf(7)>>), Success(<<NatOf(7), NatOf(8)>>),
     Success(<<NatOf(8), NatOf(7)>>),
     ExceptionThrown(<<"invalid bytecode">>),
     ExceptionThrown(Repr("StackUnderflow", <<"ADD requires 2 stack elements">>)),
     Crash(<<"implementation raised exception">>
               \o Repr("IndexError", <<"pop from empty list">>)),
     Crash(<<"implementation raised exception">>
               \o Repr("RuntimeError", <<"Unknown opcode", 0>>))}

\* The reference is not called directly.
ReferenceIdle ==
    /\ expr = <<>>
    /\ program = <<>>
    /\ initial_stack = 0
    /\ heap = <<>>
    /\ pc = "idle"
    /\ offset = 0
    /\ instructions = <<>>
    /\ decoded = Pending
    /\ state = 0
    /\ ip = 0
    /\ outcome = Pending
    /\ single = [offset |-> -1, result |-> Pending]

reference == <<expr, program, initial_stack, heap, pc, offset, instructions,
               decoded, state, ip, outcome, single>>

enumeration == <<test, call, run, frame, out, first, count>>

InitFuzzer ==
    /\ ReferenceIdle
    /\ EnumerationIdle
    /\ source = "random"
    /\ bytecode = <<>>
    /\ impl \in Candidates
    /\ num_tests \in 0..MaxTests
    /\ iteration = 0
    /\ spec_result = NoResult
    /\ impl_result = NoResult
    /\ matches = FALSE
    /\ stats = NoStatistics
    /\ compared = NoComparison
    /\ hpc = "loop"

CompareResultsCall ==
    /\ hpc = "loop"
    /\ iteration = 0
    /\ \E expected \in ExecutionResultSamples, actual \in ExecutionResultSamples :
          compared' = [expected |-> expected, actual |-> actual,
                       result |-> CompareResults(expected, actual)]
    /\ hpc' = "done"
    /\ UNCHANGED <<reference, enumeration, source, bytecode, impl, num_tests,
                   iteration, spec_result, impl_result, matches, stats>>

\* for i in range(num_tests): bytecode = generator_func()
GenerateTest ==
    /\ hpc = "loop"
    /\ iteration < num_tests
    /\ bytecode' \in RandomBytes
    /\ hpc' = "run_single_test"
    /\ UNCHANGED <<reference, enumeration, source, impl, num_tests, iteration,
                   spec_result, impl_result, matches, stats, compared>>

\* run_single_test(bytecode, execute_with_spec, impl_func); an exception
\* that execute_with_spec does not catch leaves run_fuzzer.
RunSingleTest ==
    /\ hpc = "run_single_test"
    /\ LET s == ExecuteWithSpec(bytecode)
           c == ExecuteWithImplementation(bytecode, impl)
       IN  /\ spec_result' = s
           /\ IF s.kind = "Propagated"
              THEN /\ hpc' = "aborted"
                   /\ UNCHANGED <<impl_result, matches>>
              ELSE /\ impl_result' = c
                   /\ matches' = CompareResults(s, c)
                   /\ hpc' = "record_test"
    /\ UNCHANGED <<reference, enumeration, source, bytecode, impl, num_tests,
                   iteration, stats, compared>>

\* record_test without the test of the reason: every ExceptionThrown of
\* the reference counts as invalid bytecode.
RecordTestAnyException(s, spec_r, impl_r, results_match) ==
    [total_tests       |-> s.total_tests + 1,
     invalid_bytecodes |-> s.invalid_bytecodes +
                             (IF spec_r.kind = "ExceptionThrown" THEN 1 ELSE 0),
     crashes           |-> s.crashes + (IF impl_r.kind = "Crash" THEN 1 ELSE 0),
     bugs_found        |-> s.bugs_found + (IF results_match THEN 0 ELSE 1)]

\* FuzzingStatistics.record_test
RecordTest(s, spec_r, impl_r, results_match) ==
    [total_tests       |-> s.total_tests + 1,
     invalid_bytecodes |-> s.invalid_bytecodes +
                             (IF spec_r.kind = "ExceptionThrown"
                                   /\ spec_r.reason = <<"invalid bytecode">>
                              THEN 1 ELSE 0),
     crashes           |-> s.crashes + (IF impl_r.kind = "Crash" THEN 1 ELSE 0),
     bugs_found        |-> s.bugs_found + (IF results_match THEN 0 ELSE 1)]

\* A loop that ends at the first mismatch.
RecordAndReportStopOnBug ==
    /\ hpc = "record_test"
    /\ stats' = RecordTest(stats, spec_result, impl_result, matches)
    /\ iteration' = iteration + 1
    /\ hpc' = IF matches THEN "loop" ELSE "returned"
    /\ bytecode' = <<>>
    /\ spec_result' = NoResult
    /\ impl_result' = NoResult
    /\ matches' = FALSE
    /\ UNCHANGED <<reference, enumeration, source, impl, num_tests, compared>>

\* stats.record_test(...); report_bug(...) if not matches (it only prints);
\* the iteration ends and its locals are dead.
RecordAndReport ==
    /\ hpc = "record_test"
    /\ stats' = RecordTest(stats, spec_result, impl_result, matches)
    /\ iteration' = iteration + 1
    /\ hpc' = "loop"
    /\ bytecode' = <<>>
    /\ spec_result' = NoResult
    /\ impl_result' = NoResult
    /\ matches' = FALSE
    /\ UNCHANGED <<reference, enumeration, source, impl, num_tests, compared>>

\* The loop is over: stats.print_summary(); return stats.
FuzzerReturn ==
    /\ hpc = "loop"
    /\ iteration >= num_tests
    /\ hpc' = "returned"
    /\ UNCHANGED <<reference, enumeration, source, bytecode, impl, num_tests,
                   iteration, spec_result, impl_result, matches, stats, compared>>

FuzzNext ==
    \/ CompareResultsCall
    \/ GenerateTest
    \/ RunSingleTest
    \/ RecordAndReport
    \/ FuzzerReturn

FuzzSpec == InitFuzzer /\ [][FuzzNext]_vars

\* ------------------------------------------------------------------------
\* FuzzingStatistics: record_test called directly on a fresh object
\* ------------------------------------------------------------------------

MaxCalls == 2

\* FuzzingStatistics.valid_tests
ValidTests(s) == s.total_tests - s.invalid_bytecodes

\* FuzzingStatistics.correct_tests
CorrectTests(s) == s.total_tests - s.bugs_found

\* Outcomes passed to record_test: one of each kind, an ExceptionThrown
\* with another reason, and a Crash whose reason is "invalid bytecode".
StatisticsResultSamples ==
    {Success(<<>>),
     ExceptionThrown(<<"invalid bytecode">>),
     ExceptionThrown(Repr("StackUnderflow", <<"ADD requires 2 stack elements">>)),
     Crash(<<"implementation raised exception">>
               \o Repr("IndexError", <<"pop from empty list">>)),
     Crash(<<"invalid bytecode">>)}

\* stats = FuzzingStatistics(); out is the list of the calls made on it.
InitStatistics ==
    /\ ReferenceIdle
    /\ FuzzerIdle
    /\ EnumerationIdle
    /\ source = "record_test"
    /\ bytecode = <<>>
    /\ impl = "none"
    /\ iteration = 0
    /\ spec_result = NoResult
    /\ impl_result = NoResult
    /\ hpc = "stats"

\* stats.record_test(spec_result, impl_result, results_match)
RecordTestCall ==
    /\ hpc = "stats"
    /\ iteration < MaxCalls
    /\ \E spec_r \in StatisticsResultSamples, impl_r \in StatisticsResultSamples,
          results_match \in BOOLEAN :
          /\ stats' = RecordTest(stats, spec_r, impl_r, results_match)
          /\ out' = Append(out, [spec_result |-> spec_r, impl_result |-> impl_r,
                                 results_match |-> results_match])
    /\ iteration' = iteration + 1
    /\ UNCHANGED <<reference, source, bytecode, impl, num_tests, spec_result,
                   impl_result, matches, compared, test, call, run, frame, first,
                   count, hpc>>

StatsSpec == InitStatistics /\ [][RecordTestCall]_vars

\* ------------------------------------------------------------------------
\* tests/test_enumeration.py: a generator of enumeration.py is listed, a
\* second time by test_determinism, and the other tests loop over the list
\* ------------------------------------------------------------------------

MaxEnumDepth == 1

\* [], [0], [0, 1], [0, 0], [0, 1, 2]
ConstantLists ==
    {<<>>, <<NatOf(0)>>, <<NatOf(0), NatOf(1)>>, <<NatOf(0), NatOf(0)>>,
     <<NatOf(0), NatOf(1), NatOf(2)>>}

\* max_expr_depth of the suites listed
SuiteDepths == {0, 1}

ExpressionCalls ==
    {[fn |-> "enumerate_expressions", depth |-> d, constants |-> c] :
        d \in 0..MaxEnumDepth, c \in ConstantLists}

SuiteCall(d) ==
    [fn |-> "generate_comprehensive_suite", depth |-> d, constants |-> BOUNDARY_CONSTANTS]

UnderflowCall ==
    [fn |-> "enumerate_stack_underflow_tests", depth |-> 0, constants |-> MINIMAL_CONSTANTS]

OverflowCall ==
    [fn |-> "enumerate_arithmetic_overflow_tests", depth |-> 0, constants |-> <<>>]

\* The locals of a generator that has not yet run.
NewFrame(c) ==
    CASE c.fn = "enumerate_expressions" ->
            [fn |-> c.fn,
             sub_exprs |-> IF c.depth = 0 THEN <<>>
                           ELSE EnumerateExpressions(c.depth - 1, c.constants),
             left |-> 1, right |-> 1, op |-> 1, c |-> 1]
      [] c.fn = "generate_comprehensive_suite" ->
            [fn |-> c.fn, stage |-> 1, k |-> 1, seen |-> {}]
      [] c.fn = "enumerate_stack_underflow_tests" ->
            [fn |-> c.fn, k |-> 1]
      [] c.fn = "enumerate_arithmetic_overflow_tests" ->
            [fn |-> c.fn, k |-> 1]

InitEnumeration ==
    /\ ReferenceIdle
    /\ FuzzerIdle
    /\ source = "enumeration"
    /\ bytecode = <<>>
    /\ \/ /\ test = "test_determinism"
          /\ call \in ExpressionCalls \cup {SuiteCall(d) : d \in SuiteDepths}
          /\ impl = "none"
       \/ /\ test = "test_boundary_value_tests"
          /\ call \in {UnderflowCall, OverflowCall}
          /\ impl = "none"
       \/ /\ test = "test_integration"
          /\ call = SuiteCall(1)
          /\ impl \in {"v3", "v4"}
    /\ run = 1
    /\ frame = NewFrame(call)
    /\ out = <<>>
    /\ first = <<>>
    /\ count = 0
    /\ iteration = 0
    /\ spec_result = NoResult
    /\ impl_result = NoResult
    /\ hpc = "list"

fuzzer == <<num_tests, matches, stats, compared>>

\* enumerate_expressions in the pair loops: the next of Add, Mul, Byte.
YieldPairItem ==
    /\ hpc = "list"
    /\ frame.fn = "enumerate_expressions"
    /\ frame.left <= Len(frame.sub_exprs)
    /\ out' = Append(out, YieldsOfPair(frame.sub_exprs[frame.left],
                                       frame.sub_exprs[frame.right])[frame.op])
    /\ frame' = IF frame.op < 3 THEN [frame EXCEPT !.op = @ + 1]
                ELSE IF frame.right < Len(frame.sub_exprs)
                THEN [frame EXCEPT !.op = 1, !.right = @ + 1]
                ELSE [frame EXCEPT !.op = 1, !.right = 1, !.left = @ + 1]
    /\ UNCHANGED <<reference, fuzzer, source, bytecode, impl, iteration, spec_result,
                   impl_result, test, call, run, first, count, hpc>>

\* A loop over constants that yields only at depth 0.
YieldConstAtDepthZero ==
    /\ hpc = "list"
    /\ frame.fn = "enumerate_expressions"
    /\ frame.left > Len(frame.sub_exprs)
    /\ frame.c <= Len(call.constants)
    /\ out' = IF call.depth = 0 THEN Append(out, Const(call.constants[frame.c])) ELSE out
    /\ frame' = [frame EXCEPT !.c = @ + 1]
    /\ UNCHANGED <<reference, fuzzer, source, bytecode, impl, iteration, spec_result,
                   impl_result, test, call, run, first, count, hpc>>

\* enumerate_expressions in a loop over constants: yield Const(c).
YieldConst ==
    /\ hpc = "list"
    /\ frame.fn = "enumerate_expressions"
    /\ frame.left > Len(frame.sub_exprs)
    /\ frame.c <= Len(call.constants)
    /\ out' = Append(out, Const(call.constants[frame.c]))
    /\ frame' = [frame EXCEPT !.c = @ + 1]
    /\ UNCHANGED <<reference, fuzzer, source, bytecode, impl, iteration, spec_result,
                   impl_result, test, call, run, first, count, hpc>>

\* The position after item k of source stage.
AfterSuiteItem(f, sources) ==
    IF f.k < Len(sources[f.stage]) THEN [f EXCEPT !.k = @ + 1]
    ELSE [f EXCEPT !.stage = @ + 1, !.k = 1]

\* An iteration that yields without looking at seen.
NextSuiteItemNoDedup ==
    /\ hpc = "list"
    /\ frame.fn = "generate_comprehensive_suite"
    /\ frame.stage <= 4
    /\ LET sources  == SuiteSources(call.depth)
           item     == sources[frame.stage][frame.k]
           hex_code == Hex(item)
       IN  /\ out' = Append(out, item)
           /\ frame' = [AfterSuiteItem(frame, sources) EXCEPT !.seen = @ \cup {hex_code}]
    /\ UNCHANGED <<reference, fuzzer, source, bytecode, impl, iteration, spec_result,
                   impl_result, test, call, run, first, count, hpc>>

\* generate_comprehensive_suite: one iteration of one of its four loops.
NextSuiteItem ==
    /\ hpc = "list"
    /\ frame.fn = "generate_comprehensive_suite"
    /\ frame.stage <= 4
    /\ LET sources  == SuiteSources(call.depth)
           item     == sources[frame.stage][frame.k]
           hex_code == Hex(item)
       IN  IF hex_code \notin frame.seen
           THEN /\ out' = Append(out, item)
                /\ frame' = [AfterSuiteItem(frame, sources) EXCEPT
                                !.seen = @ \cup {hex_code}]
           ELSE /\ out' = out
                /\ frame' = AfterSuiteItem(frame, sources)
    /\ UNCHANGED <<reference, fuzzer, source, bytecode, impl, iteration, spec_result,
                   impl_result, test, call, run, first, count, hpc>>

\* enumerate_stack_underflow_tests: the next yield.
NextUnderflowItem ==
    /\ hpc = "list"
    /\ frame.fn = "enumerate_stack_underflow_tests"
    /\ frame.k <= Len(EnumerateStackUnderflowTests)
    /\ out' = Append(out, EnumerateStackUnderflowTests[frame.k])
    /\ frame' = [frame EXCEPT !.k = @ + 1]
    /\ UNCHANGED <<reference, fuzzer, source, bytecode, impl, iteration, spec_result,
                   impl_result, test, call, run, first, count, hpc>>

\* enumerate_arithmetic_overflow_tests: the next yield.
NextOverflowItem ==
    /\ hpc = "list"
    /\ frame.fn = "enumerate_arithmetic_overflow_tests"
    /\ frame.k <= Len(EnumerateArithmeticOverflowTests)
    /\ out' = Append(out, EnumerateArithmeticOverflowTests[frame.k])
    /\ frame' = [frame EXCEPT !.k = @ + 1]
    /\ UNCHANGED <<reference, fuzzer, source, bytecode, impl, iteration, spec_result,
                   impl_result, test, call, run, first, count, hpc>>

\* The generator has nothing more to yield.
Exhausted ==
    CASE frame.fn = "enumerate_expressions" ->
            frame.left > Len(frame.sub_exprs) /\ frame.c > Len(call.constants)
      [] frame.fn = "generate_comprehensive_suite" -> frame.stage > 4
      [] frame.fn = "enumerate_stack_underflow_tests" ->
            frame.k > Len(EnumerateStackUnderflowTests)
      [] frame.fn = "enumerate_arithmetic_overflow_tests" ->
            frame.k > Len(EnumerateArithmeticOverflowTests)
      [] OTHER -> FALSE

\* A second invocation that goes on with the seen of the first.
SecondInvocationSeenKept ==
    /\ hpc = "list"
    /\ test = "test_determinism"
    /\ run = 1
    /\ Exhausted
    /\ first' = out
    /\ out' = <<>>
    /\ run' = 2
    /\ frame' = IF call.fn = "generate_comprehensive_suite"
                THEN [NewFrame(call) EXCEPT !.seen = frame.seen]
                ELSE NewFrame(call)
    /\ UNCHANGED <<reference, fuzzer, source, bytecode, impl, iteration, spec_result,
                   impl_result, test, call, count, hpc>>

\* test_determinism: the first list is complete; the generator is invoked
\* again with the same arguments.
SecondInvocation ==
    /\ hpc = "list"
    /\ test = "test_determinism"
    /\ run = 1
    /\ Exhausted
    /\ first' = out
    /\ out' = <<>>
    /\ run' = 2
    /\ frame' = NewFrame(call)
    /\ UNCHANGED <<reference, fuzzer, source, bytecode, impl, iteration, spec_result,
                   impl_result, test, call, count, hpc>>

\* test_determinism: the second list is complete; assert the two have the
\* same length and the same items.
DeterminismAssert ==
    /\ hpc = "list"
    /\ test = "test_determinism"
    /\ run = 2
    /\ Exhausted
    /\ hpc' = IF Len(first) = Len(out) /\ \A k \in 1..Len(out) : first[k] = out[k]
              THEN "passed" ELSE "failed"
    /\ UNCHANGED <<reference, fuzzer, enumeration, source, bytecode, impl, iteration,
                   spec_result, impl_result>>

\* test_boundary_value_tests: the list of overflow tests is complete;
\* assert len(tests) >= 10.
OverflowAssert ==
    /\ hpc = "list"
    /\ call = OverflowCall
    /\ Exhausted
    /\ hpc' = IF Len(out) >= 10 THEN "passed" ELSE "failed"
    /\ UNCHANGED <<reference, fuzzer, enumeration, source, bytecode, impl, iteration,
                   spec_result, impl_result>>

\* tests = list(...) is complete; the for loop over it starts.
LoopStart ==
    /\ hpc = "list"
    /\ test # "test_determinism"
    /\ call # OverflowCall
    /\ Exhausted
    /\ hpc' = "loop"
    /\ UNCHANGED <<reference, fuzzer, enumeration, source, bytecode, impl, iteration,
                   spec_result, impl_result>>

\* What a test keeps of a call of execute_bytecode or of a candidate.
Kept(r, stack) ==
    IF r.raised = "none" THEN [raised |-> "none", stack |-> stack]
    ELSE [raised |-> r.raised]

\* test_boundary_value_tests: try: execute_bytecode(bytecode); except
\* StackUnderflow: underflow_count += 1.  Another exception ends the test.
UnderflowStep ==
    /\ hpc = "loop"
    /\ test = "test_boundary_value_tests"
    /\ iteration < Len(out)
    /\ LET b == out[iteration + 1]
           r == ExecuteBytecode(b)
       IN  /\ bytecode' = b
           /\ spec_result' = Kept(r, IF r.raised = "none" THEN r.heap[r.state] ELSE <<>>)
           /\ count' = IF r.raised = "StackUnderflow" THEN count + 1 ELSE count
           /\ hpc' = IF r.raised \in {"none", "StackUnderflow"} THEN "loop" ELSE "error"
    /\ iteration' = iteration + 1
    /\ UNCHANGED <<reference, fuzzer, source, impl, impl_result, test, call, run,
                   frame, out, first>>

\* test_integration: the reference runs the buffer; if it raises
\* InvalidInstruction or StackUnderflow the buffer is skipped; else the
\* candidate runs it and a different stack counts as a bug.  An exception
\* of the candidate is passed over for v3 and counts as a bug for v4.
IntegrationStep ==
    /\ hpc = "loop"
    /\ test = "test_integration"
    /\ iteration < Len(out)
    /\ LET b == out[iteration + 1]
           r == ExecuteBytecode(b)
           c == ImplExecute(impl, b)
       IN  /\ bytecode' = b
           /\ spec_result' = Kept(r, IF r.raised = "none" THEN r.heap[r.state] ELSE <<>>)
           /\ IF r.raised \in {"InvalidInstruction", "StackUnderflow"}
              THEN /\ impl_result' = NoResult
                   /\ UNCHANGED <<count, hpc>>
              ELSE IF r.raised # "none"
              THEN /\ impl_result' = NoResult
                   /\ hpc' = "error"
                   /\ UNCHANGED count
              ELSE /\ impl_result' = Kept(c, IF c.raised = "none" THEN c.stack ELSE <<>>)
                   /\ count' = IF c.raised = "none"
                               THEN (IF r.heap[r.state] # c.stack THEN count + 1 ELSE count)
                               ELSE (IF impl = "v4" THEN count + 1 ELSE count)
                   /\ UNCHANGED hpc
    /\ iteration' = iteration + 1
    /\ UNCHANGED <<reference, fuzzer, source, impl, test, call, run, frame, out, first>>

\* The loop is over: assert underflow_count == len(tests), bugs_found > 0
\* (v3), bugs_found == 0 (v4).
LoopEnd ==
    /\ hpc = "loop"
    /\ iteration >= Len(out)
    /\ hpc' = IF \/ test = "test_boundary_value_tests" /\ count = Len(out)
                 \/ test = "test_integration" /\ impl = "v3" /\ count > 0
                 \/ test = "test_integration" /\ impl = "v4" /\ count = 0
              THEN "passed" ELSE "failed"
    /\ UNCHANGED <<reference, fuzzer, enumeration, source, bytecode, impl, iteration,
                   spec_result, impl_result>>

EnumNext ==
    \/ YieldPairItem
    \/ YieldConst
    \/ NextSuiteItem
    \/ NextUnderflowItem
    \/ NextOverflowItem
    \/ SecondInvocation
    \/ DeterminismAssert
    \/ OverflowAssert
    \/ LoopStart
    \/ UnderflowStep
    \/ IntegrationStep
    \/ LoopEnd

EnumSpec == InitEnumeration /\ [][EnumNext]_vars

\* ------------------------------------------------------------------------
\* The random generators called directly: generate_structure_aware_bytecode
\* (fuzzer.py) and random_expr (expression.py).  Every value drawn from the
\* random number generator is a choice.
\* ------------------------------------------------------------------------

MaxInstructions == 2

MaxRandomDepth == 2

\* random.choice([0x00] + list(range(0x05, 0x100))): the lowest, the one
\* next to the opcodes and the highest.
InvalidOpcodeSamples == {0, 5, 255}

\* const_generator(rng)
RandomConstSamples == {<<7>>}

NoExpr == [tag |-> "none"]

StructureAwareCall(m) ==
    [fn |-> "generate_structure_aware_bytecode", max_instructions |-> m]

RandomExprCall(d) == [fn |-> "random_expr", max_depth |-> d]

\* One activation of random_expr: its argument, where it is, the operator
\* it chose and the value of its first recursive call.
Activation(d) == [max_depth |-> d, stage |-> "enter", tag |-> "none", left |-> NoExpr]

machine == <<program, initial_stack, heap, pc, offset, instructions, decoded,
             state, ip, outcome, single>>

testing == <<impl, iteration, spec_result, impl_result, test, run, out, first, count>>

InitGenerator ==
    /\ ReferenceIdle
    /\ FuzzerIdle
    /\ test = "none"
    /\ call \in {StructureAwareCall(m) : m \in 0..MaxInstructions}
                \cup {RandomExprCall(d) : d \in (-1)..MaxRandomDepth}
    /\ run = 0
    /\ frame = NoFrame
    /\ out = <<>>
    /\ first = <<>>
    /\ count = 0
    /\ source = "generator"
    /\ bytecode = <<>>
    /\ impl = "none"
    /\ iteration = 0
    /\ spec_result = NoResult
    /\ impl_result = NoResult
    /\ hpc = "call"

\* b''.join(instructions)
RECURSIVE Join(_)
Join(records) == IF records = <<>> THEN <<>> ELSE Head(records) \o Join(Tail(records))

\* instructions = []; num_instructions = random.randint(1, max_instructions),
\* a ValueError when the range is empty.
ChooseLength ==
    /\ hpc = "call"
    /\ call.fn = "generate_structure_aware_bytecode"
    /\ IF call.max_instructions < 1
       THEN hpc' = "raised" /\ UNCHANGED frame
       ELSE /\ \E n \in 1..call.max_instructions :
                  frame' = [fn |-> call.fn, num_instructions |-> n, k |-> 0,
                            instructions |-> <<>>, broke |-> FALSE]
            /\ hpc' = "loop"
    /\ UNCHANGED <<machine, fuzzer, testing, source, expr, bytecode, call>>

\* What one iteration appends, and whether it ends with break.
IterationOutcomes ==
    {[record |-> <<OP_PUSH4>> \o SubSeq(ToBytesBig(v, 4), 1, t), broke |-> TRUE] :
        v \in Push4Samples, t \in 1..3}
    \cup {[record |-> <<OP_PUSH4>> \o ToBytesBig(v, 4), broke |-> FALSE] : v \in Push4Samples}
    \cup {[record |-> <<op>>, broke |-> FALSE] : op \in {OP_ADD, OP_MUL, OP_BYTE}}
    \cup {[record |-> <<b>>, broke |-> TRUE] : b \in InvalidOpcodeSamples}

\* An iteration that goes on after a truncated Push4 or an invalid opcode.
GenerateInstructionNoBreak ==
    /\ hpc = "loop"
    /\ frame.fn = "generate_structure_aware_bytecode"
    /\ frame.k < frame.num_instructions
    /\ \E o \in IterationOutcomes :
          frame' = [frame EXCEPT !.k = @ + 1,
                                 !.instructions = Append(@, o.record)]
    /\ UNCHANGED <<machine, fuzzer, testing, source, expr, bytecode, call, hpc>>

\* One iteration of the for loop: choose_instruction() and its branch.
GenerateInstruction ==
    /\ hpc = "loop"
    /\ frame.fn = "generate_structure_aware_bytecode"
    /\ ~frame.broke
    /\ frame.k < frame.num_instructions
    /\ \E o \in IterationOutcomes :
          frame' = [frame EXCEPT !.k = @ + 1,
                                 !.instructions = Append(@, o.record),
                                 !.broke = o.broke]
    /\ UNCHANGED <<machine, fuzzer, testing, source, expr, bytecode, call, hpc>>

\* The loop is over or was left by break: return b''.join(instructions).
JoinAndReturn ==
    /\ hpc = "loop"
    /\ frame.fn = "generate_structure_aware_bytecode"
    /\ frame.broke \/ frame.k >= frame.num_instructions
    /\ bytecode' = Join(frame.instructions)
    /\ hpc' = "returned"
    /\ UNCHANGED <<machine, fuzzer, testing, source, expr, call, frame>>

\* The value v returns from the innermost activation.
ReturnValue(f, v) == [f EXCEPT !.stack = SubSeq(@, 1, Len(@) - 1), !.ret = v]

\* random_expr(rng, max_depth, const_generator) is called.
RandomExprStart ==
    /\ hpc = "call"
    /\ call.fn = "random_expr"
    /\ frame' = [fn |-> call.fn, stack |-> <<Activation(call.max_depth)>>, ret |-> NoExpr]
    /\ hpc' = "running"
    /\ UNCHANGED <<machine, fuzzer, testing, source, expr, bytecode, call>>

\* random_expr with the test max_depth < 0.
RandomExprEnterNoBase ==
    /\ hpc = "running"
    /\ frame.ret = NoExpr
    /\ frame.stack # <<>>
    /\ LET top == frame.stack[Len(frame.stack)] IN
          /\ top.stage = "enter"
          /\ IF top.max_depth < 0
             THEN \E c \in RandomConstSamples : frame' = ReturnValue(frame, Const(c))
             ELSE \/ \E c \in RandomConstSamples : frame' = ReturnValue(frame, Const(c))
                  \/ \E tag \in Operators :
                        frame' = [frame EXCEPT
                                     !.stack = Append([@ EXCEPT ![Len(@)].stage = "left",
                                                                ![Len(@)].tag = tag],
                                                      Activation(top.max_depth - 1))]
    /\ UNCHANGED <<machine, fuzzer, testing, source, expr, bytecode, call, hpc>>

\* The body of random_expr up to its first recursive call: the test of
\* max_depth, the draw of choice, and either return Const(...) or the call
\* random_expr(rng, max_depth - 1, const_generator) for the first operand.
RandomExprEnter ==
    /\ hpc = "running"
    /\ frame.ret = NoExpr
    /\ frame.stack # <<>>
    /\ LET top == frame.stack[Len(frame.stack)] IN
          /\ top.stage = "enter"
          /\ IF top.max_depth <= 0
             THEN \E c \in RandomConstSamples : frame' = ReturnValue(frame, Const(c))
             ELSE \/ \E c \in RandomConstSamples : frame' = ReturnValue(frame, Const(c))
                  \/ \E tag \in Operators :
                        frame' = [frame EXCEPT
                                     !.stack = Append([@ EXCEPT ![Len(@)].stage = "left",
                                                                ![Len(@)].tag = tag],
                                                      Activation(top.max_depth - 1))]
    /\ UNCHANGED <<machine, fuzzer, testing, source, expr, bytecode, call, hpc>>

\* A recursive call has returned: after the first, the second operand is
\* generated by another call with max_depth - 1; after the second, the node
\* is built and returned.
RandomExprResume ==
    /\ hpc = "running"
    /\ frame.ret # NoExpr
    /\ frame.stack # <<>>
    /\ LET top == frame.stack[Len(frame.stack)] IN
          IF top.stage = "left"
          THEN frame' = [frame EXCEPT
                            !.stack = Append([@ EXCEPT ![Len(@)].stage = "right",
                                                       ![Len(@)].left = frame.ret],
                                             Activation(top.max_depth - 1)),
                            !.ret = NoExpr]
          ELSE frame' = ReturnValue(frame, Node(top.tag, top.left, frame.ret))
    /\ UNCHANGED <<machine, fuzzer, testing, source, expr, bytecode, call, hpc>>

\* The outermost call returns its tree.
RandomExprReturn ==
    /\ hpc = "running"
    /\ frame.ret # NoExpr
    /\ frame.stack = <<>>
    /\ expr' = frame.ret
    /\ hpc' = "returned"
    /\ UNCHANGED <<machine, fuzzer, testing, source, bytecode, call, frame>>

GenNext ==
    \/ ChooseLength
    \/ GenerateInstruction
    \/ JoinAndReturn
    \/ RandomExprStart
    \/ RandomExprEnter
    \/ RandomExprResume
    \/ RandomExprReturn

\* The calls run to their end: no step of a sequential program is put off
\* for ever.
GenSpec == InitGenerator /\ [][GenNext]_vars /\ WF_vars(GenNext)

\* ------------------------------------------------------------------------
\* Properties of the codec
\* ------------------------------------------------------------------------

\* The wire format as a grammar: a buffer is well formed when it is a
\* sequence of records 01 b b b b | 02 | 03 | 04.
RECURSIVE WellFormed(_)
WellFormed(data) ==
    \/ data = <<>>
    \/ /\ Head(data) \in {2, 3, 4}
       /\ WellFormed(Tail(data))
    \/ /\ Head(data) = 1
       /\ Len(data) >= 5
       /\ WellFormed(SubSeq(data, 6, Len(data)))

\* No record starts at byte offset at of data (0-based).
NoRecordAt(data, at) ==
    /\ at < Len(data)
    /\ \/ data[at + 1] \notin {1, 2, 3, 4}
       \/ data[at + 1] = 1 /\ Len(data) - at < 5

\* C1: for every instruction sequence P with Push4 values in 0..2^32-1, the
\* empty one included, deserialize_program(serialize_program(P)) returns a
\* list equal to P.
C1_RoundTrip ==
    (/\ source \in {"program", "expr"}
     /\ \A k \in 1..Len(program) :
           program[k].op = "PUSH4" => ValidPush4Value(program[k].value)
     /\ decoded # Pending)
    => /\ decoded.raised = "none"
       /\ decoded.instructions = program

C1_Witness ==
    /\ source = "program"
    /\ program = <<PUSH4(<<120, 86, 52, 18>>), MUL>>
    /\ decoded.raised = "none"
    /\ decoded.instructions = program

\* C2: deserialize_program is all-or-nothing: it returns a list whose
\* encodings, concatenated, are the whole buffer, or it fails with
\* InvalidInstruction at the first offset where no record starts and
\* returns no list.
C2_AllOrNothing ==
    decoded # Pending =>
       \/ /\ decoded.raised = "none"
          /\ SerializeProgram(decoded.instructions) = bytecode
       \/ /\ decoded.raised = "InvalidInstruction"
          /\ "instructions" \notin DOMAIN decoded
          /\ WellFormed(SubSeq(bytecode, 1, decoded.at))
          /\ NoRecordAt(bytecode, decoded.at)
          /\ outcome = decoded

C2_Witness ==
    /\ source = "raw"
    /\ decoded.raised = "InvalidInstruction"
    /\ decoded.at = 2
    /\ Len(instructions) = 2
    /\ Len(bytecode) = 5

\* The value of four bytes read most significant first.
BigEndianValue(b1, b2, b3, b4) ==
    AddNat(AddNat(MulNat(NatOf(b1), NatOf(16777216)), MulNat(NatOf(b2), NatOf(65536))),
           AddNat(MulNat(NatOf(b3), NatOf(256)), NatOf(b4)))

\* C3: deserialize_instruction(data, offset), offset >= 0, fails with
\* InvalidInstruction exactly when offset >= len(data), or the opcode is
\* 0x01 and fewer than 4 bytes follow, or the opcode is not 0x01..0x04;
\* otherwise it gives Push4 of the big-endian value of the next 4 bytes and
\* offset + 5, or Add/Mul/Byte and offset + 1.
C3_DeserializeInstruction ==
    single.offset >= 0 =>
       LET data  == bytecode
           off   == single.offset
           r     == single.result
           fails == \/ off >= Len(data)
                    \/ data[off + 1] = 1 /\ Len(data) - (off + 1) < 4
                    \/ data[off + 1] \notin {1, 2, 3, 4}
       IN  /\ (r.raised = "InvalidInstruction") <=> fails
           /\ ~fails => /\ r.raised = "none"
                        /\ data[off + 1] = 1 =>
                              /\ r.instr = PUSH4(BigEndianValue(data[off + 2], data[off + 3],
                                                                data[off + 4], data[off + 5]))
                              /\ r.offset = off + 5
                        /\ data[off + 1] = 2 => r.instr = ADD /\ r.offset = off + 1
                        /\ data[off + 1] = 3 => r.instr = MUL /\ r.offset = off + 1
                        /\ data[off + 1] = 4 => r.instr = BYTE /\ r.offset = off + 1

C3_Witness ==
    /\ single.offset = 1
    /\ single.result.raised = "none"
    /\ single.result.instr = PUSH4(<<120, 86, 52, 18>>)
    /\ single.result.offset = 6
    /\ bytecode = <<2, 1, 18, 52, 86, 120>>

\* ------------------------------------------------------------------------
\* Properties of execute
\* ------------------------------------------------------------------------

\* Nine primes below 2^15 whose product exceeds 2^128: two integers below
\* 2^128 are equal exactly when their residues agree for all of them.
Primes == {32749, 32719, 32717, 32713, 32707, 32693, 32687, 32653, 32647}

RECURSIVE Residue(_, _)
Residue(n, p) == IF n = <<>> THEN 0 ELSE (n[1] + 256 * Residue(Tail(n), p)) % p

TwoTo64 == <<0, 0, 0, 0, 0, 0, 0, 0, 1>>

\* r = (a + b) mod 2^64: r is below 2^64 and a + b = r + k * 2^64.
IsSumMod64(a, b, r) ==
    /\ Len(r) <= 8
    /\ \E k \in {0, 1} : \A p \in Primes :
          (Residue(a, p) + Residue(b, p)) % p = (Residue(r, p) + k * Residue(TwoTo64, p)) % p

\* r = (a * b) mod 2^64: r is below 2^64 and a * b = r + q * 2^64, where q
\* is the part of the long product above its eight low digits.
IsProductMod64(a, b, r) ==
    LET prod == MulNat(a, b)
        q    == Normalize(SubSeq(prod, 9, Len(prod)))
    IN  /\ Len(r) <= 8
        /\ \A p \in Primes :
              (Residue(a, p) * Residue(b, p)) % p
                 = (Residue(r, p) + ((Residue(TwoTo64, p) * Residue(q, p)) % p)) % p

\* floor(x / 256^m) mod 256
DivPow256Mod256(x, m) == Digit(SubSeq(x, m + 1, Len(x)), 1)

\* The instruction the loop of execute_program is about to execute.
AtInstruction == pc = "exec" /\ ip < Len(decoded.instructions)

CurrentInstruction == decoded.instructions[ip + 1]

\* C4: on a stack of depth >= 2, Add (Mul) removes the top two elements a
\* and b and pushes (a + b) mod 2^64 ((a * b) mod 2^64); the elements below
\* are unchanged.  Add on [2^64-1, 2] gives [1], Mul gives [2^64-2].
C4_AddMul ==
    [][(/\ AtInstruction
        /\ CurrentInstruction.op \in {"ADD", "MUL"}
        /\ Len(heap[state]) >= 2)
       => LET st  == heap[state]
              n   == Len(st)
              new == heap'[state']
          IN  /\ pc' = "exec"
              /\ ip' = ip + 1
              /\ Len(new) = n - 1
              /\ SubSeq(new, 1, n - 2) = SubSeq(st, 1, n - 2)
              /\ CurrentInstruction.op = "ADD" => IsSumMod64(st[n - 1], st[n], new[n - 1])
              /\ CurrentInstruction.op = "MUL" => IsProductMod64(st[n - 1], st[n], new[n - 1])
              /\ (st = <<UINT64_MAX, <<2>>>> /\ CurrentInstruction.op = "ADD")
                    => new = <<(<<1>>)>>
              /\ (st = <<UINT64_MAX, <<2>>>> /\ CurrentInstruction.op = "MUL")
                    => new = <<(<<254, 255, 255, 255, 255, 255, 255, 255>>)>>
      ]_vars

C4_Witness ==
    /\ source = "program"
    /\ program = <<PUSH4(UINT32_MAX), MUL>>
    /\ heap[1] = <<UINT64_MAX, UINT64_MAX>>
    /\ ip = 2
    /\ heap[state] = <<UINT64_MAX, (<<1, 0, 0, 0, 255, 255, 255, 255>>)>>

\* C5: on a stack of depth >= 2 with top i and next x, Byte replaces the two
\* by 0 when i >= 8 and by floor(x / 256^(7-i)) mod 256 otherwise; the
\* elements below are unchanged.
C5_Byte ==
    [][(/\ AtInstruction
        /\ CurrentInstruction.op = "BYTE"
        /\ Len(heap[state]) >= 2)
       => LET st  == heap[state]
              n   == Len(st)
              i   == st[n]
              x   == st[n - 1]
              new == heap'[state']
          IN  /\ pc' = "exec"
              /\ ip' = ip + 1
              /\ Len(new) = n - 1
              /\ SubSeq(new, 1, n - 2) = SubSeq(st, 1, n - 2)
              /\ (\A k \in 0..7 : i # NatOf(k)) => new[n - 1] = NatOf(0)
              /\ \A k \in 0..7 :
                    i = NatOf(k) => new[n - 1] = NatOf(DivPow256Mod256(x, 7 - k))
      ]_vars

C5_Witness ==
    /\ source = "expr"
    /\ expr = Byte(Const(<<120, 86, 52, 18>>), Const(<<7>>))
    /\ ip = 3
    /\ heap[state - 1] = <<(<<120, 86, 52, 18>>), (<<7>>)>>
    /\ heap[state] = <<(<<120>>)>>

\* C6: Add, Mul and Byte fail with StackUnderflow exactly when the depth is
\* below 2; Push4 fails at no depth.
C6_Underflow ==
    [][AtInstruction
       => IF CurrentInstruction.op \in {"ADD", "MUL", "BYTE"} /\ Len(heap[state]) < 2
          THEN pc' = "done" /\ outcome'.raised = "StackUnderflow"
          ELSE pc' = "exec" /\ ip' = ip + 1 /\ outcome' = outcome
      ]_vars

C6_Witness ==
    /\ pc = "done"
    /\ outcome.raised = "StackUnderflow"
    /\ ip = 1
    /\ Len(heap[state]) = 1
    /\ decoded.instructions[ip + 1] = BYTE

\* C7: execute never changes the state it is given, whether it returns or
\* fails, and a state it returns has a stack list of its own.
C7_InputUnchanged ==
    [][AtInstruction
       => /\ \A id \in 1..Len(heap) : heap'[id] = heap[id]
          /\ pc' = "exec" => state' # state
      ]_vars

C7_Witness ==
    /\ pc = "done"
    /\ outcome.raised = "StackUnderflow"
    /\ ip = 1
    /\ heap[state - 1] # heap[state]
    /\ heap[state - 1] # <<>>
    /\ Len(heap) = state + 1
    /\ heap[state + 1] = heap[state]

\* ------------------------------------------------------------------------
\* Properties of execute_program, execute_bytecode and compile_expr
\* ------------------------------------------------------------------------

\* The instructions instrs[k..] applied one after the other to a stack, up
\* to and including the first that fails; calls counts the instructions
\* applied from instrs[1] on.
RECURSIVE RunFrom(_, _, _)
RunFrom(stack, instrs, k) ==
    IF k > Len(instrs) THEN [raised |-> "none", stack |-> stack, calls |-> k - 1]
    ELSE LET r == Execute(<<stack>>, 1, instrs[k]) IN
         IF r.raised # "none" THEN [raised |-> r.raised, calls |-> k]
         ELSE RunFrom(r.heap[r.state], instrs, k + 1)

\* The lists that exist when the loop of execute_program starts: the
\* caller's, if any, and the fresh [] that stands in for None or for [].
ListsBeforeLoop ==
    IF initial_stack = 0 THEN 1
    ELSE IF heap[initial_stack] = <<>> THEN 2 ELSE 1

\* C8: execute_program applies the instructions in list order from the
\* initial stack (default empty); if instruction k is the first to fail the
\* result is that failure, no later instruction is executed and no state is
\* returned; otherwise the result is the state after the last instruction.
C8_ExecuteProgram ==
    (decoded.raised = "none" /\ outcome # Pending) =>
       LET init == IF initial_stack = 0 THEN <<>> ELSE heap[initial_stack]
           ref  == RunFrom(init, decoded.instructions, 1)
       IN  /\ pc = "done"
           /\ Len(heap) - ListsBeforeLoop = ref.calls
           /\ IF ref.raised = "none"
              THEN /\ outcome.raised = "none"
                   /\ heap[outcome.state] = ref.stack
                   /\ ip = Len(decoded.instructions)
              ELSE /\ outcome.raised = ref.raised
                   /\ "state" \notin DOMAIN outcome
                   /\ ip = ref.calls - 1

C8_Witness ==
    /\ source = "program"
    /\ program = <<MUL, PUSH4(<<>>)>>
    /\ heap[1] = <<(<<8>>)>>
    /\ outcome.raised = "StackUnderflow"
    /\ ip = 0
    /\ Len(heap) = 2
    /\ heap[state] = <<(<<8>>)>>

\* C9: execute_bytecode raises InvalidInstruction exactly for the buffers
\* that do not decode and StackUnderflow only for buffers that decode
\* completely, and no instruction is executed before decoding has finished.
C9_DecodeBeforeExecute ==
    /\ outcome # Pending =>
          /\ (outcome.raised = "InvalidInstruction") <=> ~WellFormed(bytecode)
          /\ (outcome.raised = "StackUnderflow") => WellFormed(bytecode)
    /\ (pc = "decode" \/ decoded.raised = "InvalidInstruction") =>
          /\ state = 0
          /\ ip = 0
          /\ Len(heap) = IF initial_stack = 0 THEN 0 ELSE 1
    /\ (state # 0 \/ ip # 0 \/ pc \in {"execute_program", "exec"}) =>
          /\ decoded.raised = "none"
          /\ offset = Len(bytecode)

C9_Witness ==
    /\ source = "raw"
    /\ bytecode = <<OP_BYTE, OP_BYTE, 5>>
    /\ outcome.raised = "InvalidInstruction"
    /\ outcome.at = 2
    /\ state = 0
    /\ heap = <<>>

RECURSIVE ConstsInRange(_)
ConstsInRange(e) ==
    CASE e.tag = "Const" -> LeqNat(e.value, UINT32_MAX)
      [] e.tag = "Byte"  -> ConstsInRange(e.value) /\ ConstsInRange(e.index)
      [] OTHER           -> ConstsInRange(e.left) /\ ConstsInRange(e.right)

\* C10: for every expression tree e over Const (value in 0..2^32-1), Add,
\* Mul and Byte, compile_expr(e) decodes and its execution from the empty
\* stack does not fail with StackUnderflow.
C10_CompiledExprRuns ==
    (source = "expr" /\ ConstsInRange(expr)) =>
       /\ decoded.raised \in {"pending", "none"}
       /\ outcome.raised \in {"pending", "none"}
       /\ pc = "exec" => (ip < Len(decoded.instructions) \/ Len(heap[state]) = 1)

C10_Witness ==
    /\ source = "expr"
    /\ expr = Add(Const(<<7>>), Byte(Const(<<120, 86, 52, 18>>), Const(<<7>>)))
    /\ outcome.raised = "none"
    /\ heap[outcome.state] = <<(<<127>>)>>

\* ------------------------------------------------------------------------
\* Properties of the differential oracle and of run_fuzzer
\* ------------------------------------------------------------------------

\* Two outcomes match: the same kind, and for two Success the same stacks,
\* element for element.
Matching(expected, actual) ==
    /\ expected.kind = actual.kind
    /\ expected.kind = "Success" =>
          /\ Len(expected.stack) = Len(actual.stack)
          /\ \A k \in 1..Len(expected.stack) : expected.stack[k] = actual.stack[k]

\* C12: compare_results(expected, actual) is true if and only if the two
\* outcomes are of the same kind and, when both are Success, their stacks
\* are equal element for element in order; the reason texts of two
\* ExceptionThrown or two Crash play no part, and outcomes of different
\* kinds never match.
C12_CompareResults ==
    /\ compared # NoComparison =>
          /\ compared.result <=> Matching(compared.expected, compared.actual)
          /\ compared.expected.kind # compared.actual.kind => ~compared.result
          /\ (compared.expected.kind = compared.actual.kind
                 /\ compared.expected.kind \in {"ExceptionThrown", "Crash"})
                => compared.result
          /\ CompareResultsMatch(compared.expected, compared.actual)
                <=> Matching(compared.expected, compared.actual)
    /\ hpc = "record_test" => (matches <=> Matching(spec_result, impl_result))

C12_Witness ==
    /\ compared.expected = ExceptionThrown(<<"invalid bytecode">>)
    /\ compared.actual =
          ExceptionThrown(Repr("StackUnderflow", <<"ADD requires 2 stack elements">>))
    /\ compared.result = TRUE

C14_RunCompletes ==
    [][source = "random" =>
          /\ hpc' # "aborted"
          /\ stats'.total_tests = iteration'
          /\ iteration' <= num_tests
          /\ hpc = "record_test" =>
                /\ hpc' = "loop"
                /\ iteration' = iteration + 1
                /\ stats'.total_tests = stats.total_tests + 1
          /\ hpc' = "run_single_test" =>
                /\ stats.total_tests = iteration
                /\ iteration < num_tests
          /\ hpc' = "returned" =>
                /\ iteration = num_tests
                /\ stats'.total_tests = num_tests]_vars

C14_Witness ==
    /\ hpc = "returned"
    /\ impl = "v1"
    /\ num_tests = 2
    /\ stats = [total_tests |-> 2, bugs_found |-> 2, crashes |-> 1,
                invalid_bytecodes |-> 1]

\* C19: candidate v4, which executes each instruction as soon as it has
\* decoded it, cannot be told from the reference by the oracle: on every
\* buffer its outcome matches the reference's under compare_results, with
\* the same final stack when the reference succeeds and ExceptionThrown
\* when the reference fails, and it is never Crash.
C19_V4Indistinguishable ==
    (hpc = "record_test" /\ impl = "v4") =>
       /\ matches
       /\ impl_result.kind # "Crash"
       /\ spec_result.kind = "Success" => impl_result = Success(spec_result.stack)
       /\ spec_result.kind = "ExceptionThrown" => impl_result.kind = "ExceptionThrown"

C19_Witness ==
    /\ hpc = "record_test"
    /\ impl = "v4"
    /\ bytecode = <<OP_BYTE, 5>>
    /\ spec_result = ExceptionThrown(<<"invalid bytecode">>)
    /\ impl_result =
          ExceptionThrown(Repr("StackUnderflow", <<"BYTE requires 2 stack elements">>))
    /\ matches

\* ------------------------------------------------------------------------
\* Properties of the enumeration engine
\* ------------------------------------------------------------------------

\* C11: every buffer of enumerate_stack_underflow_tests is Add, Mul or Byte
\* alone or preceded by exactly one Push4 of a MINIMAL_CONSTANTS value; it
\* decodes, and the reference execute_bytecode fails on it with
\* StackUnderflow: the test counts an underflow for every buffer, fifteen
\* in all, and no other exception ends it.
C11_UnderflowSuite ==
    (test = "test_boundary_value_tests" /\ call = UnderflowCall) =>
       /\ hpc \notin {"failed", "error"}
       /\ \A k \in 1..Len(out) :
             LET d == DeserializeProgram(out[k]) IN
                /\ d.raised = "none"
                /\ \/ d.instructions \in {<<ADD>>, <<MUL>>, <<BYTE>>}
                   \/ \E v \in {NatOf(0), NatOf(1), NatOf(7), NatOf(8)},
                         op \in {ADD, MUL, BYTE} : d.instructions = <<PUSH4(v), op>>
       /\ hpc \in {"loop", "passed"} =>
             /\ count = iteration
             /\ iteration > 0 => spec_result = [raised |-> "StackUnderflow"]
       /\ hpc = "passed" => (count = Len(out) /\ Len(out) = 15)

C11_Witness ==
    /\ test = "test_boundary_value_tests"
    /\ call = UnderflowCall
    /\ hpc = "passed"
    /\ bytecode = <<OP_PUSH4, 0, 0, 0, 8, OP_BYTE>>
    /\ spec_result = [raised |-> "StackUnderflow"]
    /\ count = 15

\* Item k (from 1) of the enumeration over sub, the enumeration one level
\* down, and constants: the pairs (left, right) in row-major order, three
\* items each, then the constants.
ItemAt(sub, constants, k) ==
    LET N     == Len(sub)
        pair  == (k - 1) \div 3
        left  == sub[(pair \div N) + 1]
        right == sub[(pair % N) + 1]
    IN  IF k > 3 * N * N THEN Const(constants[k - 3 * N * N])
        ELSE CASE (k - 1) % 3 = 0 -> Add(left, right)
               [] (k - 1) % 3 = 1 -> Mul(left, right)
               [] (k - 1) % 3 = 2 -> Byte(left, right)

\* The list of a call is complete.
Listed == hpc # "list" \/ Exhausted

\* C15: enumerate_expressions(0, constants) yields one Const(c) per c in
\* constants, in order, and nothing else; for depth d > 0 it yields, for
\* every ordered pair (left, right) of the depth d-1 enumeration with left
\* the outer loop, Add, Mul and Byte of the pair in that order, and then
\* one Const(c) per c: 3 * N * N + |constants| items, N the size of the
\* depth d-1 enumeration.
C15_EnumerationOrder ==
    call.fn = "enumerate_expressions" =>
       LET sub == IF call.depth = 0 THEN <<>>
                  ELSE EnumerateExpressions(call.depth - 1, call.constants)
           total == 3 * Len(sub) * Len(sub) + Len(call.constants)
       IN  /\ Len(out) <= total
           /\ \A k \in 1..Len(out) : out[k] = ItemAt(sub, call.constants, k)
           /\ Listed =>
                 /\ Len(out) = total
                 /\ out = EnumerateExpressions(call.depth, call.constants)
           /\ call.depth = 0 =>
                 \A k \in 1..Len(out) : out[k] = Const(call.constants[k])

C15_Witness ==
    /\ call = [fn |-> "enumerate_expressions", depth |-> 1,
               constants |-> <<NatOf(0), NatOf(1)>>]
    /\ Listed
    /\ Len(out) = 14
    /\ out[7] = Add(Const(NatOf(1)), Const(NatOf(0)))
    /\ out[13] = Const(NatOf(0))

NoTwoEqual(seq) == \A a, b \in 1..Len(seq) : a # b => seq[a] # seq[b]

\* C16 as stated: within one call of enumerate_expressions, for every depth
\* and every list of constants, no two yielded expressions are structurally
\* identical.
C16_NoDuplicates ==
    (call.fn = "enumerate_expressions" /\ Listed) => NoTwoEqual(out)

\* C16 amended: within one call of enumerate_expressions, for every depth
\* and every list of constants in which no value occurs twice, no two
\* yielded expressions are structurally identical.
C16_NoDuplicatesOfDistinctConstants ==
    (call.fn = "enumerate_expressions" /\ NoTwoEqual(call.constants) /\ Listed) =>
       NoTwoEqual(out)

C16_Witness ==
    /\ call = [fn |-> "enumerate_expressions", depth |-> 1,
               constants |-> <<NatOf(0), NatOf(1), NatOf(2)>>]
    /\ Listed
    /\ Len(out) = 30
    /\ run = 2

\* C17: the enumeration is deterministic: a second invocation of
\* enumerate_expressions with the same (depth, constants), or of
\* generate_comprehensive_suite with the same max_expr_depth, yields the
\* items of the first in the same order, and as many: nothing the first
\* invocation left behind changes the second.
C17_Deterministic ==
    test = "test_determinism" =>
       /\ hpc # "failed"
       /\ run = 2 =>
             /\ Len(out) <= Len(first)
             /\ \A k \in 1..Len(out) : out[k] = first[k]
             /\ Listed => Len(out) = Len(first)

C17_Witness ==
    /\ test = "test_determinism"
    /\ call = SuiteCall(1)
    /\ hpc = "passed"
    /\ Len(first) = 266
    /\ out[266] = <<OP_PUSH4, 0, 0, 0, 8, OP_BYTE>>

\* The concatenation of the four sources of the suite.
Concatenation(sources) == sources[1] \o sources[2] \o sources[3] \o sources[4]

\* The place of the first occurrence of x in seq.
FirstIndex(seq, x) ==
    CHOOSE k \in 1..Len(seq) : seq[k] = x /\ \A j \in 1..(k - 1) : seq[j] # x

\* C18: generate_comprehensive_suite(max_expr_depth) yields no two
\* byte-identical buffers; the buffers it yields are those of
\* enumerate_expression_programs(max_expr_depth, BOUNDARY_CONSTANTS), of the
\* Byte boundary suite, of the overflow suite and of the underflow suite;
\* and they come in the order of their first occurrence in the
\* concatenation of the four, in that sequence.
C18_ComprehensiveSuite ==
    (call.fn = "generate_comprehensive_suite" /\ Listed) =>
       LET all == Concatenation(
                     <<EnumerateExpressionPrograms(call.depth, BOUNDARY_CONSTANTS),
                       EnumerateByteBoundaryTests,
                       EnumerateArithmeticOverflowTests,
                       EnumerateStackUnderflowTests>>)
       IN  /\ NoTwoEqual(out)
           /\ {out[k] : k \in 1..Len(out)} = {all[k] : k \in 1..Len(all)}
           /\ \A k \in 1..(Len(out) - 1) :
                 FirstIndex(all, out[k]) < FirstIndex(all, out[k + 1])

C18_Witness ==
    /\ call = SuiteCall(1)
    /\ test = "test_determinism"
    /\ run = 1
    /\ Listed
    /\ Len(out) = 266
    /\ Cardinality(frame.seen) = 266
    /\ out[201] = <<OP_PUSH4, 0, 0, 0, 0, OP_PUSH4, 0, 0, 0, 3, OP_BYTE>>

\* C20: the comprehensive suite at max_expr_depth = 1 detects the bound
\* check of v3: the test finds at least one buffer that the reference
\* executes and on which v3 returns another stack, and on every such buffer
\* v3 returns 0 for index 7 where the reference returns the least
\* significant byte of the value.
C20_DetectsV3 ==
    (test = "test_integration" /\ impl = "v3") =>
       /\ hpc \notin {"failed", "error"}
       /\ hpc = "passed" => count > 0
       /\ (hpc = "loop" /\ iteration > 0 /\ spec_result.raised = "none"
              /\ impl_result.raised = "none"
              /\ impl_result.stack # spec_result.stack) =>
             \E x \in {FromBytesBig(SubSeq(bytecode, 2, 5))} :
                /\ bytecode = SerializeProgram(<<PUSH4(x), PUSH4(NatOf(7)), BYTE>>)
                /\ Digit(x, 1) # 0
                /\ spec_result.stack = <<NatOf(Digit(x, 1))>>
                /\ impl_result.stack = <<NatOf(0)>>

C20_Witness ==
    /\ test = "test_integration"
    /\ impl = "v3"
    /\ hpc = "loop"
    /\ bytecode = <<OP_PUSH4, 137, 171, 205, 239, OP_PUSH4, 0, 0, 0, 7, OP_BYTE>>
    /\ spec_result = [raised |-> "none", stack |-> <<NatOf(239)>>]
    /\ impl_result = [raised |-> "none", stack |-> <<NatOf(0)>>]
    /\ count = 8

\* ------------------------------------------------------------------------
\* Further properties of the reference machine
\* ------------------------------------------------------------------------

\* An int in 0..2^64-1: at most eight base-256 digits.
InWordRange(x) ==
    /\ Len(x) <= 8
    /\ \A k \in 1..Len(x) : x[k] \in 0..255
    /\ x # <<>> => x[Len(x)] # 0

\* The exact value of n exceeds 2^64-1.
ExceedsWord(n) == Len(Normalize(n)) > 8

\* C21: from an initial stack whose elements are in 0..2^64-1, every element
\* of every stack the machine reaches is in 0..2^64-1; the element a Push4
\* has just pushed is below 2^32 and the one a Byte has just pushed is in
\* 0..255.
C21_NumericClosure ==
    /\ \A id \in 1..Len(heap) : \A k \in 1..Len(heap[id]) : InWordRange(heap[id][k])
    /\ (pc = "exec" /\ ip >= 1) =>
          LET st == heap[state]
              op == decoded.instructions[ip].op
          IN  /\ Len(st) >= 1
              /\ op = "PUSH4" => Len(st[Len(st)]) <= 4
              /\ op = "BYTE" => Len(st[Len(st)]) <= 1

\* An Add whose exact sum, and a Mul whose exact product, is above 2^64-1
\* has been executed.
C21_Witness ==
    /\ pc = "exec"
    /\ ip >= 1
    /\ decoded.instructions[ip].op = "MUL"
    /\ LET before == heap[state - 1]
           n      == Len(before)
       IN  /\ n >= 2
           /\ ExceedsWord(MulNat(before[n], before[n - 1]))
           /\ ExceedsWord(AddNat(before[n], before[n - 1]))

\* C28: for every buffer b that deserialize_program accepts,
\* serialize_program(deserialize_program(b)) = b, and no other buffer
\* decodes to the same instruction sequence.
C28_ReverseRoundTrip ==
    (pc = "execute_program" /\ decoded.raised = "none") =>
       /\ SerializeProgram(decoded.instructions) = bytecode
       /\ source = "raw" =>
             \A other \in RawBuffers :
                LET d == DeserializeProgram(other) IN
                (d.raised = "none" /\ d.instructions = decoded.instructions)
                   => other = bytecode

\* A raw buffer of one Push4 record has been accepted.
C28_Witness ==
    /\ source = "raw"
    /\ pc = "execute_program"
    /\ Len(bytecode) = 5
    /\ decoded.raised = "none"
    /\ Len(decoded.instructions) = 1
    /\ decoded.instructions[1].op = "PUSH4"

\* The number of nodes of an expression tree.
RECURSIVE Nodes(_)
Nodes(e) ==
    CASE e.tag = "Const" -> 1
      [] e.tag = "Byte"  -> 1 + Nodes(e.value) + Nodes(e.index)
      [] OTHER           -> 1 + Nodes(e.left) + Nodes(e.right)

\* The sub-expressions of e as spans <<a, b>> of the compiled program: the
\* sub-expression is instructions a+1..b when e starts after instruction a.
RECURSIVE Spans(_, _)
Spans(e, a) ==
    LET lhs == IF e.tag = "Byte" THEN e.value ELSE e.left
        rhs == IF e.tag = "Byte" THEN e.index ELSE e.right
    IN  IF e.tag = "Const" THEN {<<a, a + 1>>}
        ELSE {<<a, a + Nodes(e)>>} \cup Spans(lhs, a) \cup Spans(rhs, a + Nodes(lhs))

\* C27: executing compile_expr(e) from the empty stack ends with a stack of
\* exactly one element; the depth after a compiled sub-expression is one
\* more than before it, and within it the depth is never below the depth at
\* which it started.  (execute copies the stack at every instruction: list
\* 1 + j is the stack after j instructions.)
C27_StackDepth ==
    (source = "expr" /\ pc \in {"exec", "done"} /\ decoded # Pending) =>
       /\ outcome.raised \in {"pending", "none"}
       /\ state = 1 + ip
       /\ outcome.raised = "none" =>
             ip = Nodes(expr) /\ Len(heap[outcome.state]) = 1
       /\ \A s \in Spans(expr, 0) :
             s[2] <= ip =>
                /\ Len(heap[1 + s[2]]) = Len(heap[1 + s[1]]) + 1
                /\ \A j \in (s[1] + 1)..s[2] : Len(heap[1 + j]) > Len(heap[1 + s[1]])

\* A tree with a nested left operand has been run to the end.
C27_Witness ==
    /\ source = "expr"
    /\ expr = Mul(Add(Const(<<7>>), Const(<<120, 86, 52, 18>>)), Const(<<7>>))
    /\ outcome.raised = "none"
    /\ ip = 5
    /\ Len(heap[4]) = 1
    /\ Len(heap[5]) = 2

\* C26: candidate v2 classifies failures as the reference does: on every
\* buffer it raises InvalidInstruction or StackUnderflow exactly when the
\* reference outcome is ExceptionThrown, it returns a stack exactly when the
\* reference succeeds, and its outcome is never Crash.
C26_V2Classifies ==
    (hpc = "record_test" /\ impl = "v2") =>
       LET r == ImplExecute("v2", bytecode) IN
       /\ r.raised \in {"InvalidInstruction", "StackUnderflow"}
             <=> spec_result.kind = "ExceptionThrown"
       /\ r.raised = "none" <=> spec_result.kind = "Success"
       /\ impl_result.kind = spec_result.kind
       /\ impl_result.kind # "Crash"

\* v2 underflows before it reaches the byte the reference rejects.
C26_Witness ==
    /\ hpc = "record_test"
    /\ impl = "v2"
    /\ bytecode = <<OP_BYTE, 5>>
    /\ spec_result = ExceptionThrown(<<"invalid bytecode">>)
    /\ impl_result =
          ExceptionThrown(Repr("StackUnderflow", <<"BYTE requires 2 stack elements">>))

\* C29: in every state of the loop of run_fuzzer, crashes <= bugs_found: a
\* case whose candidate outcome is Crash is a mismatch, since the reference
\* outcome is never Crash, and is counted as a bug by the same record_test.
C29_CrashesAreBugs ==
    /\ stats.crashes <= stats.bugs_found
    /\ hpc = "record_test" =>
          /\ spec_result.kind # "Crash"
          /\ impl_result.kind = "Crash" => ~matches

\* A crash has been recorded, and a bug that is not a crash.
C29_Witness ==
    /\ hpc = "loop"
    /\ stats.crashes = 1
    /\ stats.bugs_found = 2

\* ------------------------------------------------------------------------
\* Properties of FuzzingStatistics
\* ------------------------------------------------------------------------

\* The number of calls in the list of calls that satisfy P.
CallsWhere(P(_)) == Cardinality({k \in 1..Len(out) : P(out[k])})

IsMismatch(c) == ~c.results_match

IsCandidateCrash(c) == c.impl_result.kind = "Crash"

IsInvalidBytecode(c) ==
    c.spec_result.kind = "ExceptionThrown" /\ c.spec_result.reason = <<"invalid bytecode">>

\* C25: after any sequence of record_test calls on a fresh object,
\* total_tests is the number of calls, bugs_found the number of calls with
\* results_match false, crashes the number of calls whose candidate outcome
\* is Crash, invalid_bytecodes the number of calls whose reference outcome
\* is ExceptionThrown("invalid bytecode"); each counter is between 0 and
\* total_tests, valid_tests + invalid_bytecodes = total_tests and
\* correct_tests + bugs_found = total_tests.
C25_Statistics ==
    hpc = "stats" =>
       /\ stats.total_tests = Len(out)
       /\ stats.bugs_found = CallsWhere(IsMismatch)
       /\ stats.crashes = CallsWhere(IsCandidateCrash)
       /\ stats.invalid_bytecodes = CallsWhere(IsInvalidBytecode)
       /\ \A n \in {stats.bugs_found, stats.crashes, stats.invalid_bytecodes} :
             0 <= n /\ n <= stats.total_tests
       /\ ValidTests(stats) + stats.invalid_bytecodes = stats.total_tests
       /\ CorrectTests(stats) + stats.bugs_found = stats.total_tests

\* Two calls: a matching pair of underflows, then a crash on invalid
\* bytecode reported as a match.
C25_Witness ==
    /\ hpc = "stats"
    /\ Len(out) = 2
    /\ out[1].spec_result.kind = "ExceptionThrown"
    /\ ~IsInvalidBytecode(out[1])
    /\ IsInvalidBytecode(out[2])
    /\ IsCandidateCrash(out[2])
    /\ out[2].results_match
    /\ stats = [total_tests |-> 2, bugs_found |-> 0, crashes |-> 1, invalid_bytecodes |-> 1]

\* ------------------------------------------------------------------------
\* Further properties of the enumeration engine
\* ------------------------------------------------------------------------

\* The exact, unreduced result of a program Push4(v1), Push4(v2), Add or Mul.
ExactResult(instrs) ==
    IF instrs[3].op = "ADD" THEN AddNat(instrs[1].value, instrs[2].value)
    ELSE MulNat(instrs[1].value, instrs[2].value)

\* C24: the arithmetic overflow suite probes 64-bit wraparound: at least one
\* of its programs Push4(v1), Push4(v2), Add or Mul has an exact sum or
\* product above 2^64-1, so that the reference's reduction mod 2^64 changes
\* the result and a candidate that leaves out the mask (v2) returns a
\* different stack.
C24_ProbesWraparound ==
    (call = OverflowCall /\ hpc \in {"passed", "failed"}) =>
       \E k \in 1..Len(out) :
          LET d == DeserializeProgram(out[k])
              r == ExecuteBytecode(out[k])
              c == V2Execute(out[k])
          IN  /\ d.raised = "none"
              /\ ExceedsWord(ExactResult(d.instructions))
              /\ r.raised = "none"
              /\ c.raised = "none"
              /\ r.heap[r.state] # c.stack

\* The set of the items of a sequence.
Items(seq) == {seq[k] : k \in 1..Len(seq)}

\* Each expression of the depth d-1 enumeration is yielded at depth d, and
\* the buffers of enumerate_expression_programs(d, constants) are those of
\* the compiled depth-d enumeration.
Cumulative ==
    LET below == EnumerateExpressions(call.depth - 1, call.constants)
        progs == EnumerateExpressionPrograms(call.depth, call.constants)
    IN  /\ Items(below) \subseteq Items(out)
        /\ Items(progs) = {CompileExpr(e) : e \in Items(out)}

\* enumerate_expression_programs(d, constants) yields some buffer twice.
YieldsSomeBufferTwice ==
    LET progs == EnumerateExpressionPrograms(call.depth, call.constants)
    IN  Cardinality(Items(progs)) < Len(progs)

\* C30 as stated: for every d >= 1 and every constants list, each
\* expression yielded by enumerate_expressions(d-1, constants) is also
\* yielded by enumerate_expressions(d, constants); consequently
\* enumerate_expression_programs(d, constants) yields byte-identical buffers
\* more than once, and the set of distinct buffers it yields is the compiled
\* depth-d enumeration.
C30_Cumulative ==
    (call.fn = "enumerate_expressions" /\ call.depth >= 1 /\ hpc = "passed") =>
       Cumulative /\ YieldsSomeBufferTwice

\* C30 amended: the same, the repeated buffers being claimed for a
\* constants list that is not empty.
C30_CumulativeNonEmpty ==
    (call.fn = "enumerate_expressions" /\ call.depth >= 1 /\ Listed) =>
       /\ Cumulative
       /\ call.constants # <<>> => YieldsSomeBufferTwice

\* The depth 1 enumeration over [0, 1] is complete: 14 expressions, and 16
\* buffers of enumerate_expression_programs of which 14 are distinct.
C30_Witness ==
    /\ call.fn = "enumerate_expressions"
    /\ call.depth = 1
    /\ call.constants = <<NatOf(0), NatOf(1)>>
    /\ Listed
    /\ Len(out) = 14
    /\ Len(EnumerateExpressionPrograms(1, call.constants)) = 16
    /\ Cardinality(Items(EnumerateExpressionPrograms(1, call.constants))) = 14

\* ------------------------------------------------------------------------
\* Properties of the random generators
\* ------------------------------------------------------------------------

\* A record that is the encoding of an instruction.
WellFormedRecord(r) ==
    \/ r \in {<<2>>, <<3>>, <<4>>}
    \/ Len(r) = 5 /\ r[1] = 1

\* A Push4 opcode followed by only 1..3 operand bytes, or a single byte that
\* is 0x00 or >= 0x05.
MalformedRecord(r) ==
    \/ r[1] = 1 /\ Len(r) \in 2..4
    \/ Len(r) = 1 /\ (r[1] = 0 \/ r[1] >= 5)

\* C22: in generate_structure_aware_bytecode a malformed record is always
\* the last thing emitted; the output is not empty and holds at most
\* max_instructions records, every record before the last is a well-formed
\* instruction encoding, and the buffer fails to decode exactly when
\* generation stopped on a malformed record.
C22_MalformedIsLast ==
    (call.fn = "generate_structure_aware_bytecode" /\ hpc \in {"loop", "returned"}) =>
       LET records == frame.instructions
           n       == Len(records)
       IN  /\ n <= call.max_instructions
           /\ \A k \in 1..n : WellFormedRecord(records[k]) \/ MalformedRecord(records[k])
           /\ \A k \in 1..(n - 1) : WellFormedRecord(records[k])
           /\ hpc = "returned" =>
                 /\ n >= 1
                 /\ bytecode # <<>>
                 /\ bytecode = Join(records)
                 /\ DeserializeProgram(bytecode).raised # "none"
                       <=> MalformedRecord(records[n])
                 /\ ~MalformedRecord(records[n]) => n = frame.num_instructions

\* The first draw was Add, the second a Push4 cut to one operand byte.
C22_Witness ==
    /\ call = StructureAwareCall(2)
    /\ hpc = "returned"
    /\ bytecode = <<OP_ADD, OP_PUSH4, 18>>
    /\ DeserializeProgram(bytecode).raised = "InvalidInstruction"

\* The nesting depth of an expression tree: 0 for a Const.
RECURSIVE NestingDepth(_)
NestingDepth(e) ==
    CASE e.tag = "Const" -> 0
      [] e.tag = "Byte"  -> 1 + Max(NestingDepth(e.value), NestingDepth(e.index))
      [] OTHER           -> 1 + Max(NestingDepth(e.left), NestingDepth(e.right))

\* Each recursive call has the max_depth of its caller less one, and an
\* activation that has made a recursive call has max_depth > 0.
RecursionDescends ==
    hpc = "running" =>
       /\ \A k \in 2..Len(frame.stack) :
             frame.stack[k].max_depth = frame.stack[k - 1].max_depth - 1
       /\ \A k \in 1..Len(frame.stack) :
             frame.stack[k].stage # "enter" => frame.stack[k].max_depth > 0
       /\ Len(frame.stack) <= Max(call.max_depth, 0) + 1

\* The tree returned is no deeper than max(max_depth, 0).
DepthBounded ==
    hpc = "returned" => NestingDepth(expr) <= Max(call.max_depth, 0)

\* C23: random_expr terminates for every maximum depth and every sequence
\* of draws: each recursive call uses depth - 1, a call with depth <= 0
\* returns a Const without recursing, and the tree returned has nesting
\* depth at most max(max_depth, 0).
C23_RandomExprTerminates ==
    /\ [](call.fn = "random_expr" => RecursionDescends /\ DepthBounded)
    /\ (call.fn = "random_expr") ~> (hpc = "returned")

\* A tree of the full depth has been returned.
C23_Witness ==
    /\ call = RandomExprCall(2)
    /\ hpc = "returned"
    /\ NestingDepth(expr) = 2
    /\ expr.tag = "Byte"

====
